---- MODULE Spec2Model ----
(***************************************************************************)
(* A model of permission-hook (tantk/permission-hook): the circuit        *)
(* breaker of the delivery layer (src/src/webhook.rs), the lease files of *)
(* the coordination store (src/src/dedup.rs), the session state record    *)
(* (src/src/state.rs), the transcript analyzer (src/src/analyzer.rs) and  *)
(* the PreToolUse entry point (src/src/main.rs).                          *)
(*                                                                         *)
(* Every component has a specification of its own (SpecBreaker, SpecLease, *)
(* SpecDedup, SpecState, SpecAnalyzer, SpecMain); the variables of the     *)
(* other components stay at their idle values under it.                    *)
(***************************************************************************)
EXTENDS Integers, Sequences, FiniteSets, TLC

VARIABLES
    cb,         \* the CircuitBreaker struct (webhook.rs:31-37)
    instant,    \* the monotonic clock read by Instant::now(), in seconds
    cb_call,    \* history: the last CircuitBreaker method called, its result,
                \* and the record_failure calls since the last record_success
    rl,         \* the RateLimiter struct (webhook.rs:100-105)
    rl_call,    \* history: the last RateLimiter method called, its result,
                \* the try_acquire calls made so far and the Instant of new()
    wh,         \* SpecWebhook: the send_webhook call in progress (its config,
                \* where it is, the attempts made, what it returned) and the
                \* requests and breaker reports it has made
    files,      \* the temp directory: file name -> None (absent) or Some(mtime)
    clock,      \* platform::current_timestamp(), whole seconds
    pc,         \* SpecLease: where each concurrent invocation is in acquire_lock
    ret,        \* SpecLease: what acquire_lock returned to each invocation:
                \* "true" for Ok(true); for Ok(false), "duplicate" (the fresh
                \* lease of dedup.rs:64) or "beaten" (AlreadyExists, dedup.rs:84)
    granted_at, \* SpecLease history: the clock when an invocation got Ok(true)
    lease0,     \* SpecLease history: the lease file the run started with
    dedup_call, \* SpecDedup history: the last dedup::Manager call and its result
    held_since, \* SpecDedup history: per lease key, the clock of the last
                \* Ok(true) acquire not followed by a release of that key
    state_file, \* session id -> None, or Some(the SessionState stored on disk)
    st_op,      \* SpecState: the update each concurrent invocation performs
    st_pc,      \* SpecState: where each invocation is in its update
    st_local,   \* SpecState: the SessionState an invocation has loaded
    messages,   \* the parsed transcript: the Vec<Message> of jsonl.rs:81-111
    an_config,  \* config.notifications.notify_on_text_response
    an_call,    \* history: None, or Some(the Status analyze_transcript
                \* returned for the transcript as it is now)
    main_pc,    \* SpecMain: where the hook process is in main()
    main_config,\* SpecMain: the Config returned by load_config()
    stdin,      \* SpecMain: what the host wrote to the standard input
    verdict,    \* SpecMain history: None, or Some(the decision main reached:
                \* its log label, its reason, whether the classifier was asked
                \* and what it replied)
    exit_code,  \* SpecMain: None while running, Some(process exit status)
    stdout,     \* SpecMain: the objects written to the standard output
    stderr,     \* SpecMain: the lines written to the standard error
    decisions_log, \* SpecMain: the LogEntry records appended to decisions.log
    prompts_log,\* SpecMain: the lines of recent_prompts.log
    pm_input,   \* SpecPermission: the tool name and tool input of a call
    pm_call,    \* SpecPermission: the check of permission.rs called on it and
                \* what it returned
    ss_call,    \* SpecSession history: the last call on the coordination files
                \* of a session and what it returned
    real_time,  \* SpecAge: the real time, in ticks
    precise_files, \* SpecAge: file name -> None, or Some(the modification
                \* time the file system keeps, in ticks)
    age_call,   \* SpecAge history: the last dedup::Manager call, its result
                \* and the real age of the lease it looked at
    bo,         \* SpecBackoff: the build, max_attempts, the attempt the retry loop
                \* is at, and what the backoff before it came to
    temp_dir,   \* SpecSweep: the lease files of a temp directory shared by
                \* several sessions: file name -> None or Some(mtime)
    sweep_call  \* SpecSweep history: the last dedup::Manager call, its session
                \* and the directory before it

\* Option<T>: None is the empty sequence, Some(x) the sequence of x alone.
None == << >>
Some(x) == <<x>>
is_some(o) == o # << >>
unwrap(o) == o[1]

\* The variables of each component, and what an action of one component
\* leaves alone.
vars_cb == <<cb, instant, cb_call>>
vars_rl == <<rl, rl_call>>
vars_wh == <<wh>>
vars_fs == <<files, clock>>
vars_lease == <<pc, ret, granted_at, lease0>>
vars_dedup == <<dedup_call, held_since>>
vars_state == <<state_file, st_op, st_pc, st_local>>
vars_an == <<messages, an_config, an_call>>
vars_main ==
    <<main_pc, main_config, stdin, verdict, exit_code, stdout, stderr, decisions_log,
      prompts_log>>
vars_pm == <<pm_input, pm_call>>
vars_ss == <<ss_call>>
vars_age == <<real_time, precise_files, age_call>>
vars_bo == <<bo>>
vars_sweep == <<temp_dir, sweep_call>>
vars ==
    <<vars_cb, vars_rl, vars_wh, vars_fs, vars_lease, vars_dedup, vars_state, vars_an, vars_main,
      vars_pm, vars_ss, vars_age, vars_bo, vars_sweep>>
other_than_cb == <<vars_rl, vars_wh, vars_fs, vars_lease, vars_dedup, vars_state, vars_an, vars_main, vars_pm, vars_ss, vars_age, vars_bo, vars_sweep>>
other_than_lease == <<vars_cb, vars_rl, vars_wh, vars_dedup, vars_state, vars_an, vars_main, vars_pm, vars_ss, vars_age, vars_bo, vars_sweep>>
other_than_dedup == <<vars_cb, vars_rl, vars_wh, vars_lease, vars_state, vars_an, vars_main, vars_pm, vars_ss, vars_age, vars_bo, vars_sweep>>
other_than_state == <<vars_cb, vars_rl, vars_wh, files, vars_lease, vars_dedup, vars_an, vars_main, vars_pm, vars_ss, vars_age, vars_bo, vars_sweep>>
other_than_an == <<vars_cb, vars_rl, vars_wh, vars_fs, vars_lease, vars_dedup, vars_state, vars_main, vars_pm, vars_ss, vars_age, vars_bo, vars_sweep>>
other_than_main == <<vars_cb, vars_rl, vars_wh, vars_fs, vars_lease, vars_dedup, vars_state, vars_an, vars_pm, vars_ss, vars_age, vars_bo, vars_sweep>>
other_than_rl ==
    <<cb, cb_call, vars_wh, vars_fs, vars_lease, vars_dedup, vars_state, vars_an, vars_main, vars_pm, vars_ss, vars_age, vars_bo, vars_sweep>>
other_than_wh == <<vars_fs, vars_lease, vars_dedup, vars_state, vars_an, vars_main, vars_pm, vars_ss, vars_age, vars_bo, vars_sweep>>
other_than_pm ==
    <<vars_cb, vars_rl, vars_wh, vars_fs, vars_lease, vars_dedup, vars_state, vars_an, vars_main, vars_ss, vars_age, vars_bo, vars_sweep>>
other_than_ss ==
    <<vars_cb, vars_rl, vars_wh, vars_lease, vars_dedup, st_op, st_pc, st_local, vars_an, vars_main,
      vars_pm, vars_age, vars_bo, vars_sweep>>
other_than_age ==
    <<vars_cb, vars_rl, vars_wh, vars_fs, vars_lease, vars_dedup, vars_state, vars_an, vars_main,
      vars_pm, vars_ss, vars_bo, vars_sweep>>
other_than_bo ==
    <<vars_cb, vars_rl, vars_wh, vars_fs, vars_lease, vars_dedup, vars_state, vars_an, vars_main,
      vars_pm, vars_ss, vars_age, vars_sweep>>
other_than_sweep ==
    <<vars_cb, vars_rl, vars_wh, vars_fs, vars_lease, vars_dedup, vars_state, vars_an, vars_main,
      vars_pm, vars_ss, vars_age, vars_bo>>

\* ------------------------------------------------------------------------
\* Bounds of the model
\* ------------------------------------------------------------------------
MaxThreshold == 3
MaxRecovery == 2
MaxInstant == 3
MaxFailures == 5

\* ------------------------------------------------------------------------
\* CircuitBreaker (src/src/webhook.rs)
\* ------------------------------------------------------------------------

\* CircuitBreaker::new(threshold, recovery_timeout_secs)
CircuitBreaker_new(threshold, recovery_timeout_secs) ==
    [failure_count |-> 0, last_failure |-> None, is_open |-> FALSE,
     threshold |-> threshold, recovery_timeout |-> recovery_timeout_secs]

\* An is_open that recovers only after more than recovery_timeout (> for >=).
CircuitBreaker_is_open_gt(self, now) ==
    IF ~self.is_open
    THEN [cb |-> self, ret |-> FALSE]
    ELSE IF is_some(self.last_failure)
            /\ now - unwrap(self.last_failure) > self.recovery_timeout
         THEN [cb |-> [self EXCEPT !.is_open = FALSE, !.failure_count = 0], ret |-> FALSE]
         ELSE [cb |-> self, ret |-> TRUE]

\* CircuitBreaker::is_open(&mut self): the breaker after the call and the answer.
CircuitBreaker_is_open(self, now) ==
    IF ~self.is_open
    THEN [cb |-> self, ret |-> FALSE]
    ELSE IF is_some(self.last_failure)
            /\ now - unwrap(self.last_failure) >= self.recovery_timeout
         THEN [cb |-> [self EXCEPT !.is_open = FALSE, !.failure_count = 0], ret |-> FALSE]
         ELSE [cb |-> self, ret |-> TRUE]

\* A record_success that resets the counter and leaves the flag as it is.
CircuitBreaker_record_success_count_only(self) ==
    [self EXCEPT !.failure_count = 0]

\* CircuitBreaker::record_success(&mut self)
CircuitBreaker_record_success(self) ==
    [self EXCEPT !.failure_count = 0, !.is_open = FALSE]

\* A record_failure that opens only above the threshold (> for >=).
CircuitBreaker_record_failure_gt(self, now) ==
    LET n == self.failure_count + 1 IN
    [self EXCEPT !.failure_count = n, !.last_failure = Some(now),
                 !.is_open = IF n > self.threshold THEN TRUE ELSE self.is_open]

\* CircuitBreaker::record_failure(&mut self)
CircuitBreaker_record_failure(self, now) ==
    LET n == self.failure_count + 1 IN
    [self EXCEPT !.failure_count = n, !.last_failure = Some(now),
                 !.is_open = IF n >= self.threshold THEN TRUE ELSE self.is_open]


InitBreaker ==
    /\ \E t \in 1..MaxThreshold, r \in 0..MaxRecovery : cb = CircuitBreaker_new(t, r)
    /\ instant = 0
    /\ cb_call = [op |-> "new", ret |-> FALSE, consecutive |-> 0]

IdleBreaker ==
    /\ cb = CircuitBreaker_new(5, 30)
    /\ instant = 0
    /\ cb_call = [op |-> "new", ret |-> FALSE, consecutive |-> 0]

RecordFailure ==
    /\ cb_call.consecutive < MaxFailures
    /\ cb' = CircuitBreaker_record_failure(cb, instant)
    /\ cb_call' = [op |-> "record_failure", ret |-> FALSE,
                   consecutive |-> cb_call.consecutive + 1]
    /\ UNCHANGED instant
    /\ UNCHANGED other_than_cb

RecordSuccess ==
    /\ cb' = CircuitBreaker_record_success(cb)
    /\ cb_call' = [op |-> "record_success", ret |-> FALSE, consecutive |-> 0]
    /\ UNCHANGED instant
    /\ UNCHANGED other_than_cb

IsOpen ==
    /\ cb' = CircuitBreaker_is_open(cb, instant).cb
    /\ cb_call' = [cb_call EXCEPT !.op = "is_open",
                                  !.ret = CircuitBreaker_is_open(cb, instant).ret]
    /\ UNCHANGED instant
    /\ UNCHANGED other_than_cb

\* Time passes between two calls.
Elapse ==
    /\ instant < MaxInstant
    /\ instant' = instant + 1
    /\ UNCHANGED <<cb, cb_call>>
    /\ UNCHANGED other_than_cb

NextBreaker == RecordFailure \/ RecordSuccess \/ IsOpen \/ Elapse


\* ------------------------------------------------------------------------
\* RateLimiter (src/src/webhook.rs)
\* ------------------------------------------------------------------------

\* The token bucket holds an f64; the model counts sixtieths of a token, the
\* amount a limiter of one request per minute gains in one second
\* (requests_per_minute / 60.0), so that every quantity is an integer.
TokenUnit == 60

MaxRate == 3
MaxCalls == 5
MaxLimiterInstant == 60
ElapseSteps == {5, 20}

min_of(a, b) == IF a <= b THEN a ELSE b

\* RateLimiter::new(requests_per_minute), constructed at Instant now
RateLimiter_new(requests_per_minute, now) ==
    [tokens |-> requests_per_minute * TokenUnit,
     max_tokens |-> requests_per_minute * TokenUnit,
     refill_rate |-> requests_per_minute,
     last_update |-> now]

\* A refill that does not cap the bucket at max_tokens.
RateLimiter_refill_uncapped(self, now) ==
    LET elapsed == now - self.last_update IN
    [self EXCEPT !.tokens = self.tokens + elapsed * self.refill_rate,
                 !.last_update = now]

\* RateLimiter::refill(&mut self)
RateLimiter_refill(self, now) ==
    LET elapsed == now - self.last_update IN
    [self EXCEPT !.tokens = min_of(self.tokens + elapsed * self.refill_rate, self.max_tokens),
                 !.last_update = now]

\* RateLimiter::try_acquire(&mut self): the limiter after the call and the answer.
RateLimiter_try_acquire(self, now) ==
    LET refilled == RateLimiter_refill(self, now) IN
    IF refilled.tokens >= TokenUnit
    THEN [rl |-> [refilled EXCEPT !.tokens = refilled.tokens - TokenUnit], ret |-> TRUE]
    ELSE [rl |-> refilled, ret |-> FALSE]

NoLimiterCall == [op |-> "new", ret |-> FALSE, calls |-> 0, before |-> 0, elapsed |-> 0]

InitLimiter ==
    /\ \E n \in 1..MaxRate : rl = RateLimiter_new(n, 0)
    /\ rl_call = NoLimiterCall

IdleLimiter ==
    /\ rl = RateLimiter_new(10, 0)
    /\ rl_call = NoLimiterCall

\* A caller asks for a token; the call returns at once with either answer.
TryAcquire ==
    /\ rl_call.calls < MaxCalls
    /\ rl' = RateLimiter_try_acquire(rl, instant).rl
    /\ rl_call' = [op |-> "try_acquire", ret |-> RateLimiter_try_acquire(rl, instant).ret,
                   calls |-> rl_call.calls + 1, before |-> rl.tokens,
                   elapsed |-> instant - rl.last_update]
    /\ UNCHANGED instant
    /\ UNCHANGED other_than_rl

\* Time passes between two calls.
ElapseLimiter ==
    /\ \E d \in ElapseSteps :
        /\ instant + d <= MaxLimiterInstant
        /\ instant' = instant + d
    /\ UNCHANGED <<rl, rl_call>>
    /\ UNCHANGED other_than_rl

NextLimiter == TryAcquire \/ ElapseLimiter

\* ------------------------------------------------------------------------
\* send_webhook (src/src/webhook.rs)
\* ------------------------------------------------------------------------

MaxAttempts == 3
MaxSends == 2
MaxSendInstant == 4

\* config.notifications.webhook, as far as send_webhook reads it
WebhookConfigs ==
    [enabled : BOOLEAN, url_is_empty : BOOLEAN, preset : {"slack"},
     retry_enabled : BOOLEAN, retry_max_attempts : 0..MaxAttempts]

\* What the caller passes: the status and the summary of one notification.
Notifications == { <<"task_complete", "done">>, <<"question", "which?">> }

\* format_payload: the body is a function of the preset, status and summary.
format_payload(preset, status, summary) ==
    [preset |-> preset, status |-> status, text |-> summary]

\* The result of one client.post(..).send(): a success status, another
\* status, or a transport error.
AttemptOutcomes == {"success", "http_error", "request_failed"}

\* last_error after an attempt that did not succeed
error_of(outcome) ==
    IF outcome = "http_error" THEN "HTTP 500: Internal Server Error"
    ELSE "Request failed: error sending request"

\* A max_attempts without the floor of one attempt.
max_attempts_no_floor(webhook_config) ==
    IF webhook_config.retry_enabled THEN webhook_config.retry_max_attempts ELSE 1

\* webhook.rs:301-305  let max_attempts = ...
max_attempts_of(webhook_config) ==
    IF webhook_config.retry_enabled
    THEN (IF webhook_config.retry_max_attempts >= 1
          THEN webhook_config.retry_max_attempts ELSE 1)
    ELSE 1

\* webhook.rs:317  1 << attempt on 64 bits where the shift amount is taken
\* modulo 64 (a build without overflow checks); a power above 2^30 stands as
\* 2^30, which the min with 10 does not tell from it.
shl_wrapping(attempt) == 2 ^ min_of(attempt % 64, 30)

\* webhook.rs:317  (1 << attempt).min(10), in seconds
backoff_delay(attempt) == min_of(shl_wrapping(attempt), 10)

\* webhook.rs:317 in either build: with overflow checks a shift by 64 or more
\* panics, without them the shift amount wraps.
Builds == {"debug", "release"}
backoff_outcome(attempt, build) ==
    IF attempt >= 64 /\ build = "debug"
    THEN [panicked |-> TRUE, delay |-> 0]
    ELSE [panicked |-> FALSE, delay |-> backoff_delay(attempt)]

Ok == [ok |-> TRUE, err |-> << >>]
Err(e) == [ok |-> FALSE, err |-> e]

\* webhook.rs:87  the recovery timeout of the default breaker, in seconds
DefaultRecovery == 30

\* A call of send_webhook: pc is "idle" before the first call, "attempt" at
\* the head of the retry loop, "sleep" in the backoff and "returned" after the
\* return; requests, outcomes and reports list what this call sent, got and
\* told the circuit breaker.
NoSend(config) ==
    [config |-> config, pc |-> "idle", sends |-> 0, payload |-> None, admitted |-> FALSE,
     attempt |-> 0, max_attempts |-> 0, last_error |-> "", result |-> None,
     requests |-> << >>, outcomes |-> << >>, reports |-> << >>]

InitSender ==
    /\ \E t \in 1..MaxThreshold, r \in {0, MaxRecovery, DefaultRecovery} :
          cb = CircuitBreaker_new(t, r)
    /\ instant = 0
    /\ cb_call = [op |-> "new", ret |-> FALSE, consecutive |-> 0]
    /\ \E n \in {1, MaxRate} : rl = RateLimiter_new(n, 0)
    /\ rl_call = NoLimiterCall
    /\ \E config \in WebhookConfigs : wh = NoSend(config)

IdleSender ==
    wh = NoSend([enabled |-> FALSE, url_is_empty |-> TRUE, preset |-> "slack",
                 retry_enabled |-> TRUE, retry_max_attempts |-> 3])

\* The checks before the retry loop with the rate limiter asked before the
\* circuit breaker.
SendAdmitLimiterFirst ==
    /\ wh.pc \in {"idle", "returned"}
    /\ wh.sends < MaxSends
    /\ \E n \in Notifications :
        LET fresh == [NoSend(wh.config) EXCEPT !.sends = wh.sends + 1]
            opened == CircuitBreaker_is_open(cb, instant)
            acquired == RateLimiter_try_acquire(rl, instant)
        IN  IF ~wh.config.enabled
            THEN /\ wh' = [fresh EXCEPT !.pc = "returned", !.result = Some(Ok)]
                 /\ UNCHANGED <<cb, cb_call, rl, rl_call>>
            ELSE IF wh.config.url_is_empty
            THEN /\ wh' = [fresh EXCEPT !.pc = "returned",
                                        !.result = Some(Err("Webhook URL not configured"))]
                 /\ UNCHANGED <<cb, cb_call, rl, rl_call>>
            ELSE /\ rl' = acquired.rl
                 /\ rl_call' = [op |-> "try_acquire", ret |-> acquired.ret,
                                calls |-> rl_call.calls + 1, before |-> rl.tokens,
                                elapsed |-> instant - rl.last_update]
                 /\ IF ~acquired.ret
                    THEN /\ wh' = [fresh EXCEPT !.pc = "returned",
                                                !.result = Some(Err("Rate limit exceeded"))]
                         /\ UNCHANGED <<cb, cb_call>>
                    ELSE /\ cb' = opened.cb
                         /\ cb_call' = [cb_call EXCEPT !.op = "is_open", !.ret = opened.ret]
                         /\ IF opened.ret
                            THEN wh' = [fresh EXCEPT
                                          !.pc = "returned",
                                          !.result = Some(Err("Circuit breaker is open"))]
                            ELSE wh' = [fresh EXCEPT
                                          !.pc = "attempt", !.admitted = TRUE,
                                          !.payload = Some(format_payload(wh.config.preset,
                                                                          n[1], n[2])),
                                          !.max_attempts = max_attempts_of(wh.config)]
    /\ UNCHANGED instant
    /\ UNCHANGED other_than_wh

\* The checks before the retry loop with a rejection by the rate limiter
\* recorded as a failure in the circuit breaker.
SendAdmitCountingRejections ==
    /\ wh.pc \in {"idle", "returned"}
    /\ wh.sends < MaxSends
    /\ \E n \in Notifications :
        LET fresh == [NoSend(wh.config) EXCEPT !.sends = wh.sends + 1]
            opened == CircuitBreaker_is_open(cb, instant)
            acquired == RateLimiter_try_acquire(rl, instant)
            asked == [cb_call EXCEPT !.op = "is_open", !.ret = opened.ret]
        IN  IF ~wh.config.enabled
            THEN /\ wh' = [fresh EXCEPT !.pc = "returned", !.result = Some(Ok)]
                 /\ UNCHANGED <<cb, cb_call, rl, rl_call>>
            ELSE IF wh.config.url_is_empty
            THEN /\ wh' = [fresh EXCEPT !.pc = "returned",
                                        !.result = Some(Err("Webhook URL not configured"))]
                 /\ UNCHANGED <<cb, cb_call, rl, rl_call>>
            ELSE IF opened.ret
            THEN /\ wh' = [fresh EXCEPT !.pc = "returned",
                                        !.result = Some(Err("Circuit breaker is open"))]
                 /\ cb' = opened.cb
                 /\ cb_call' = asked
                 /\ UNCHANGED <<rl, rl_call>>
            ELSE /\ cb' = IF acquired.ret THEN opened.cb
                         ELSE CircuitBreaker_record_failure(opened.cb, instant)
                 /\ cb_call' = asked
                 /\ rl' = acquired.rl
                 /\ rl_call' = [op |-> "try_acquire", ret |-> acquired.ret,
                                calls |-> rl_call.calls + 1, before |-> rl.tokens,
                                elapsed |-> instant - rl.last_update]
                 /\ IF ~acquired.ret
                    THEN wh' = [fresh EXCEPT !.pc = "returned",
                                             !.result = Some(Err("Rate limit exceeded"))]
                    ELSE wh' = [fresh EXCEPT
                                  !.pc = "attempt", !.admitted = TRUE,
                                  !.payload = Some(format_payload(wh.config.preset, n[1], n[2])),
                                  !.max_attempts = max_attempts_of(wh.config)]
    /\ UNCHANGED instant
    /\ UNCHANGED other_than_wh

\* webhook.rs:276-310: the checks before the retry loop.
SendAdmit ==
    /\ wh.pc \in {"idle", "returned"}
    /\ wh.sends < MaxSends
    /\ \E n \in Notifications :
        LET fresh == [NoSend(wh.config) EXCEPT !.sends = wh.sends + 1]
            opened == CircuitBreaker_is_open(cb, instant)
            acquired == RateLimiter_try_acquire(rl, instant)
            asked == [cb_call EXCEPT !.op = "is_open", !.ret = opened.ret]
        IN  IF ~wh.config.enabled
            THEN /\ wh' = [fresh EXCEPT !.pc = "returned", !.result = Some(Ok)]
                 /\ UNCHANGED <<cb, cb_call, rl, rl_call>>
            ELSE IF wh.config.url_is_empty
            THEN /\ wh' = [fresh EXCEPT !.pc = "returned",
                                        !.result = Some(Err("Webhook URL not configured"))]
                 /\ UNCHANGED <<cb, cb_call, rl, rl_call>>
            ELSE IF opened.ret
            THEN /\ wh' = [fresh EXCEPT !.pc = "returned",
                                        !.result = Some(Err("Circuit breaker is open"))]
                 /\ cb' = opened.cb
                 /\ cb_call' = asked
                 /\ UNCHANGED <<rl, rl_call>>
            ELSE /\ cb' = opened.cb
                 /\ cb_call' = asked
                 /\ rl' = acquired.rl
                 /\ rl_call' = [op |-> "try_acquire", ret |-> acquired.ret,
                                calls |-> rl_call.calls + 1, before |-> rl.tokens,
                                elapsed |-> instant - rl.last_update]
                 /\ IF ~acquired.ret
                    THEN wh' = [fresh EXCEPT !.pc = "returned",
                                             !.result = Some(Err("Rate limit exceeded"))]
                    ELSE wh' = [fresh EXCEPT
                                  !.pc = "attempt", !.admitted = TRUE,
                                  !.payload = Some(format_payload(wh.config.preset, n[1], n[2])),
                                  !.max_attempts = max_attempts_of(wh.config)]
    /\ UNCHANGED instant
    /\ UNCHANGED other_than_wh

\* webhook.rs:320-341: one request and what the loop does with its result (the
\* time the request takes is left out: the clock moves in the backoff and
\* between calls).  A max_attempts of zero leaves the loop at once.
SendAttempt ==
    /\ wh.pc = "attempt"
    /\ IF wh.attempt >= wh.max_attempts
       THEN /\ wh' = [wh EXCEPT !.pc = "returned",
                                !.result = Some(Err(<<"Webhook failed after", wh.max_attempts,
                                                      wh.last_error>>))]
            /\ UNCHANGED <<cb, cb_call, instant>>
       ELSE \E outcome \in AttemptOutcomes :
            LET sent == [wh EXCEPT !.requests = Append(wh.requests, unwrap(wh.payload)),
                                   !.outcomes = Append(wh.outcomes, outcome)]
                next_attempt == wh.attempt + 1
            IN  /\ UNCHANGED instant
                /\ IF outcome = "success"
                   THEN /\ cb' = CircuitBreaker_record_success(cb)
                        /\ cb_call' = [op |-> "record_success", ret |-> FALSE, consecutive |-> 0]
                        /\ wh' = [sent EXCEPT !.pc = "returned", !.result = Some(Ok),
                                              !.reports = Append(wh.reports, "success")]
                   ELSE /\ cb' = CircuitBreaker_record_failure(cb, instant)
                        /\ cb_call' = [op |-> "record_failure", ret |-> FALSE,
                                       consecutive |-> cb_call.consecutive + 1]
                        /\ wh' = [sent EXCEPT
                                    !.last_error = error_of(outcome),
                                    !.attempt = next_attempt,
                                    !.reports = Append(wh.reports, "failure"),
                                    !.pc = IF next_attempt < wh.max_attempts THEN "sleep"
                                           ELSE "attempt"]
    /\ UNCHANGED <<rl, rl_call>>
    /\ UNCHANGED other_than_wh

\* webhook.rs:315-319: the backoff before every attempt but the first.
SendSleep ==
    /\ wh.pc = "sleep"
    /\ instant' = instant + backoff_delay(wh.attempt)
    /\ wh' = [wh EXCEPT !.pc = "attempt"]
    /\ UNCHANGED <<cb, cb_call, rl, rl_call>>
    /\ UNCHANGED other_than_wh

\* Time passes between two calls of send_webhook: a recovery timeout's worth.
ElapseSender ==
    /\ wh.pc \in {"idle", "returned"}
    /\ wh.sends < MaxSends
    /\ instant < MaxSendInstant
    /\ instant' = instant + MaxRecovery
    /\ UNCHANGED <<cb, cb_call, rl, rl_call, wh>>
    /\ UNCHANGED other_than_wh

NextWebhook == SendAdmit \/ SendAttempt \/ SendSleep \/ ElapseSender

\* ------------------------------------------------------------------------
\* Lease files (src/src/dedup.rs, src/src/platform.rs)
\* ------------------------------------------------------------------------

\* Strings are sequences of characters, so that format!, contains and
\* ends_with work on them as they do on the file names.
LockPrefix ==
    <<"c", "l", "a", "u", "d", "e", "-", "n", "o", "t", "i", "f", "i", "c", "a", "t", "i", "o", "n", "-">>
ContentLockPrefix ==
    <<"c", "l", "a", "u", "d", "e", "-", "n", "o", "t", "i", "f", "i", "c", "a", "t", "i", "o", "n", "-", "c", "o", "n", "t", "e", "n", "t", "-">>
LockSuffix ==
    <<".", "l", "o", "c", "k">>
Stop ==
    <<"S", "t", "o", "p">>
Notification ==
    <<"N", "o", "t", "i", "f", "i", "c", "a", "t", "i", "o", "n">>

\* The session identifiers and hook events of the model.
SessionIds == { <<"a", "1">> }
HookEvents == { None, Some(Stop), Some(Notification) }

\* Freshness thresholds of the two lease namespaces, in seconds.
LockFreshSecs == 2
ContentFreshSecs == 5

\* A get_lock_path that leaves the hook event out of the name.
get_lock_path_no_event(session_id, hook_event) ==
    LockPrefix \o session_id \o LockSuffix

\* Manager::get_lock_path
get_lock_path(session_id, hook_event) ==
    IF is_some(hook_event)
    THEN LockPrefix \o session_id \o <<"-">> \o unwrap(hook_event) \o LockSuffix
    ELSE LockPrefix \o session_id \o LockSuffix

\* Manager::get_content_lock_path
get_content_lock_path(session_id) ==
    ContentLockPrefix \o session_id \o LockSuffix

FileNames ==
    { get_lock_path(s, e) : s \in SessionIds, e \in HookEvents }
        \cup { get_content_lock_path(s) : s \in SessionIds }

\* Path::exists
path_exists(fs, path) == is_some(fs[path])

\* platform::file_mtime: None when the file is gone.
file_mtime(fs, path) == fs[path]

\* fs::remove_file, its error ignored
remove_file(fs, path) == [fs EXCEPT ![path] = None]

\* An open that truncates an existing file (create(true) for create_new(true)).
create_or_truncate(fs, path, now) ==
    [ok |-> TRUE, fs |-> [fs EXCEPT ![path] = Some(now)]]

\* OpenOptions::new().write(true).create_new(true).open(path) and the write
\* of the timestamp: one indivisible create-if-absent.
create_new(fs, path, now) ==
    IF is_some(fs[path])
    THEN [ok |-> FALSE, fs |-> fs]
    ELSE [ok |-> TRUE, fs |-> [fs EXCEPT ![path] = Some(now)]]

\* An acquire that leaves a stale lease file where it is.
acquire_path_no_reclaim(fs, path, now, fresh_secs) ==
    LET mtime == file_mtime(fs, path)
        seen == path_exists(fs, path) /\ is_some(mtime)
        made == create_new(fs, path, now)
    IN IF seen /\ now - unwrap(mtime) < fresh_secs
       THEN [fs |-> fs, ret |-> FALSE]
       ELSE [fs |-> made.fs, ret |-> made.ok]

\* The body shared by acquire_lock and acquire_content_lock, run without
\* interruption: [fs |-> the directory afterwards, ret |-> Ok(ret)].
acquire_path(fs, path, now, fresh_secs) ==
    LET mtime == file_mtime(fs, path)
        seen == path_exists(fs, path) /\ is_some(mtime)
        fs1 == IF seen THEN remove_file(fs, path) ELSE fs
        made == create_new(fs1, path, now)
    IN IF seen /\ now - unwrap(mtime) < fresh_secs
       THEN [fs |-> fs, ret |-> FALSE]
       ELSE [fs |-> made.fs, ret |-> made.ok]

\* Manager::check_early_duplicate
check_early_duplicate(fs, session_id, hook_event, now) ==
    LET lock_path == get_lock_path(session_id, hook_event)
        mtime == file_mtime(fs, lock_path)
    IN IF ~path_exists(fs, lock_path)
       THEN FALSE
       ELSE is_some(mtime) /\ now - unwrap(mtime) < LockFreshSecs

\* Manager::acquire_lock
acquire_lock(fs, session_id, hook_event, now) ==
    acquire_path(fs, get_lock_path(session_id, hook_event), now, LockFreshSecs)

\* Manager::release_lock
release_lock(fs, session_id, hook_event) ==
    LET lock_path == get_lock_path(session_id, hook_event)
    IN IF path_exists(fs, lock_path) THEN remove_file(fs, lock_path) ELSE fs

\* Manager::acquire_content_lock
acquire_content_lock(fs, session_id, now) ==
    acquire_path(fs, get_content_lock_path(session_id), now, ContentFreshSecs)

\* Manager::release_content_lock
release_content_lock(fs, session_id) ==
    LET lock_path == get_content_lock_path(session_id)
    IN IF path_exists(fs, lock_path) THEN remove_file(fs, lock_path) ELSE fs

NoFiles == [n \in FileNames |-> None]

\* --- concurrent invocations of acquire_lock on one key (SpecLease) ---

NProcs == 2
MaxClock == 5
Procs == 1..NProcs

\* The key every invocation of SpecLease asks for.
LeaseSession == <<"a", "1">>
LeaseEvent == Some(Stop)
LeasePath == get_lock_path(LeaseSession, LeaseEvent)


\* The clock when the invocations of SpecLease start: late enough for a
\* lease file written at 0 to be stale.
LeaseStart == LockFreshSecs

InitLease ==
    /\ clock = LeaseStart
    /\ \E f \in {None, Some(0)} :
        /\ files = [NoFiles EXCEPT ![LeasePath] = f]
        /\ lease0 = f
    /\ pc = [p \in Procs |-> "exists"]
    /\ ret = [p \in Procs |-> "pending"]
    /\ granted_at = [p \in Procs |-> None]

IdleLease ==
    /\ pc = [p \in Procs |-> "done"]
    /\ ret = [p \in Procs |-> "pending"]
    /\ granted_at = [p \in Procs |-> None]
    /\ lease0 = None

\* dedup.rs:60  if lock_path.exists()
AcquireExists(p) ==
    /\ pc[p] = "exists"
    /\ pc' = [pc EXCEPT ![p] = IF path_exists(files, LeasePath) THEN "mtime" ELSE "create"]
    /\ UNCHANGED <<files, clock, ret, granted_at, lease0>>
    /\ UNCHANGED other_than_lease

\* dedup.rs:61-65  file_mtime, the age, and the return of Ok(false) on a fresh lease
AcquireMtime(p) ==
    /\ pc[p] = "mtime"
    /\ LET mtime == file_mtime(files, LeasePath) IN
        IF is_some(mtime)
        THEN IF clock - unwrap(mtime) < LockFreshSecs
             THEN /\ pc' = [pc EXCEPT ![p] = "done"]
                  /\ ret' = [ret EXCEPT ![p] = "duplicate"]
             ELSE /\ pc' = [pc EXCEPT ![p] = "remove"]
                  /\ UNCHANGED ret
        ELSE /\ pc' = [pc EXCEPT ![p] = "create"]
             /\ UNCHANGED ret
    /\ UNCHANGED <<files, clock, granted_at, lease0>>
    /\ UNCHANGED other_than_lease

\* dedup.rs:67  let _ = fs::remove_file(&lock_path)
AcquireRemove(p) ==
    /\ pc[p] = "remove"
    /\ files' = remove_file(files, LeasePath)
    /\ pc' = [pc EXCEPT ![p] = "create"]
    /\ UNCHANGED <<clock, ret, granted_at, lease0>>
    /\ UNCHANGED other_than_lease

\* dedup.rs:72-87  create_new: Ok(true), or Ok(false) on AlreadyExists
AcquireCreate(p) ==
    /\ pc[p] = "create"
    /\ LET made == create_new(files, LeasePath, clock) IN
        /\ files' = made.fs
        /\ ret' = [ret EXCEPT ![p] = IF made.ok THEN "true" ELSE "beaten"]
        /\ granted_at' = [granted_at EXCEPT ![p] = IF made.ok THEN Some(clock) ELSE None]
    /\ pc' = [pc EXCEPT ![p] = "done"]
    /\ UNCHANGED <<clock, lease0>>
    /\ UNCHANGED other_than_lease

\* A second passes while the invocations run.
TickLease ==
    /\ clock < MaxClock
    /\ clock' = clock + 1
    /\ UNCHANGED <<files, pc, ret, granted_at, lease0>>
    /\ UNCHANGED other_than_lease

NextLease ==
    \/ \E p \in Procs : AcquireExists(p)
    \/ \E p \in Procs : AcquireMtime(p)
    \/ \E p \in Procs : AcquireRemove(p)
    \/ \E p \in Procs : AcquireCreate(p)
    \/ TickLease

\* --- calls made one after another (SpecDedup) ---

\* A lease key: an event lease of a session, or its content lease.
EventKey(s, e) == [ns |-> "event", session |-> s, event |-> e]
ContentKey(s) == [ns |-> "content", session |-> s, event |-> None]
EventKeys == { EventKey(s, e) : s \in SessionIds, e \in HookEvents }
ContentKeys == { ContentKey(s) : s \in SessionIds }
LeaseKeys == EventKeys \cup ContentKeys

\* The age of a key's lease as its history gives it: None when the key was
\* never acquired, or was released since.
AgeOf(k) == IF is_some(held_since[k]) THEN Some(clock - unwrap(held_since[k])) ELSE None


NoCall == [op |-> "none", key |-> EventKey(<<>>, None), ret |-> FALSE, age |-> None]

InitDedup ==
    /\ clock = 0
    /\ files = NoFiles
    /\ dedup_call = NoCall
    /\ held_since = [k \in LeaseKeys |-> None]

IdleDedup ==
    /\ dedup_call = NoCall
    /\ held_since = [k \in LeaseKeys |-> None]

IdleFs ==
    /\ clock = 0
    /\ files = NoFiles

CheckEarlyDuplicate(s, e) ==
    /\ dedup_call' = [op |-> "check_early_duplicate", key |-> EventKey(s, e),
                      ret |-> check_early_duplicate(files, s, e, clock),
                      age |-> AgeOf(EventKey(s, e))]
    /\ UNCHANGED <<files, clock, held_since>>
    /\ UNCHANGED other_than_dedup

AcquireLock(s, e) ==
    LET r == acquire_lock(files, s, e, clock) IN
    /\ files' = r.fs
    /\ dedup_call' = [op |-> "acquire_lock", key |-> EventKey(s, e), ret |-> r.ret,
                      age |-> AgeOf(EventKey(s, e))]
    /\ held_since' = IF r.ret THEN [held_since EXCEPT ![EventKey(s, e)] = Some(clock)]
                     ELSE held_since
    /\ UNCHANGED clock
    /\ UNCHANGED other_than_dedup

ReleaseLock(s, e) ==
    /\ files' = release_lock(files, s, e)
    /\ dedup_call' = [op |-> "release_lock", key |-> EventKey(s, e), ret |-> TRUE,
                      age |-> AgeOf(EventKey(s, e))]
    /\ held_since' = [held_since EXCEPT ![EventKey(s, e)] = None]
    /\ UNCHANGED clock
    /\ UNCHANGED other_than_dedup

AcquireContentLock(s) ==
    LET r == acquire_content_lock(files, s, clock) IN
    /\ files' = r.fs
    /\ dedup_call' = [op |-> "acquire_content_lock", key |-> ContentKey(s), ret |-> r.ret,
                      age |-> AgeOf(ContentKey(s))]
    /\ held_since' = IF r.ret THEN [held_since EXCEPT ![ContentKey(s)] = Some(clock)]
                     ELSE held_since
    /\ UNCHANGED clock
    /\ UNCHANGED other_than_dedup

ReleaseContentLock(s) ==
    /\ files' = release_content_lock(files, s)
    /\ dedup_call' = [op |-> "release_content_lock", key |-> ContentKey(s), ret |-> TRUE,
                      age |-> AgeOf(ContentKey(s))]
    /\ held_since' = [held_since EXCEPT ![ContentKey(s)] = None]
    /\ UNCHANGED clock
    /\ UNCHANGED other_than_dedup

TickDedup ==
    /\ clock < MaxClock
    /\ clock' = clock + 1
    /\ UNCHANGED <<files, dedup_call, held_since>>
    /\ UNCHANGED other_than_dedup

NextDedup ==
    \/ \E s \in SessionIds, e \in HookEvents : CheckEarlyDuplicate(s, e)
    \/ \E s \in SessionIds, e \in HookEvents : AcquireLock(s, e)
    \/ \E s \in SessionIds, e \in HookEvents : ReleaseLock(s, e)
    \/ \E s \in SessionIds : AcquireContentLock(s)
    \/ \E s \in SessionIds : ReleaseContentLock(s)
    \/ TickDedup

\* ------------------------------------------------------------------------
\* Session state (src/src/state.rs)
\* ------------------------------------------------------------------------

\* SessionState { session_id, ..Default::default() }
default_state(session_id) ==
    [session_id |-> session_id, last_interactive_tool |-> "", last_timestamp |-> 0,
     last_task_complete_time |-> 0, last_notification_time |-> 0,
     last_notification_status |-> "", last_notification_message |-> "", cwd |-> ""]

\* Manager::load: Ok(None) without a state file, else Ok(Some(state)).
load(sf, session_id) == sf[session_id]

\* self.load(session_id)?.unwrap_or_else(|| SessionState { session_id, .. })
load_or_default(sf, session_id) ==
    IF is_some(load(sf, session_id)) THEN unwrap(load(sf, session_id))
    ELSE default_state(session_id)

\* Manager::save: the whole record overwrites the file of state.session_id.
save(sf, state) == [sf EXCEPT ![state.session_id] = Some(state)]

\* The arguments the invocations of the model pass to the updates.
ArgTool == "AskUserQuestion"
ArgCwd == "/work"
ArgStatus == "question"
ArgMessage == "Claude has a question"

UpdateOps == {"update_interactive_tool", "update_task_complete", "update_last_notification"}

\* What each update assigns to the loaded record before it saves it.
apply_update(op, state, now) ==
    CASE op = "update_interactive_tool" ->
            [state EXCEPT !.last_interactive_tool = ArgTool,
                          !.last_timestamp = now,
                          !.cwd = ArgCwd]
      [] op = "update_task_complete" ->
            [state EXCEPT !.last_task_complete_time = now]
      [] op = "update_last_notification" ->
            [state EXCEPT !.last_notification_time = now,
                          !.last_notification_status = ArgStatus,
                          !.last_notification_message = ArgMessage]

\* The fields an update assigns.
FieldsOf(op) ==
    CASE op = "update_interactive_tool" -> {"last_interactive_tool", "last_timestamp", "cwd"}
      [] op = "update_task_complete" -> {"last_task_complete_time"}
      [] op = "update_last_notification" ->
            {"last_notification_time", "last_notification_status",
             "last_notification_message"}

NoStateFiles == [s \in SessionIds |-> None]

\* --- concurrent invocations updating one session (SpecState) ---

StateSession == <<"a", "1">>

InitState ==
    /\ clock = 1
    /\ files = NoFiles
    /\ state_file = NoStateFiles
    /\ st_op \in [Procs -> UpdateOps]
    /\ st_pc = [p \in Procs |-> "load"]
    /\ st_local = [p \in Procs |-> default_state(StateSession)]

IdleState ==
    /\ state_file = NoStateFiles
    /\ st_op = [p \in Procs |-> "update_task_complete"]
    /\ st_pc = [p \in Procs |-> "done"]
    /\ st_local = [p \in Procs |-> default_state(StateSession)]

\* state.rs:90, 104, 116  let mut state = self.load(session_id)?.unwrap_or_else(..)
StateLoad(p) ==
    /\ st_pc[p] = "load"
    /\ st_local' = [st_local EXCEPT ![p] = load_or_default(state_file, StateSession)]
    /\ st_pc' = [st_pc EXCEPT ![p] = "save"]
    /\ UNCHANGED <<state_file, st_op, clock>>
    /\ UNCHANGED other_than_state

\* state.rs:95-99, 109-111, 121-125  the assignments and self.save(&state)
StateSave(p) ==
    /\ st_pc[p] = "save"
    /\ state_file' = save(state_file, apply_update(st_op[p], st_local[p], clock))
    /\ st_pc' = [st_pc EXCEPT ![p] = "done"]
    /\ UNCHANGED <<st_op, st_local, clock>>
    /\ UNCHANGED other_than_state

TickState ==
    /\ clock < MaxClock
    /\ clock' = clock + 1
    /\ UNCHANGED <<state_file, st_op, st_pc, st_local>>
    /\ UNCHANGED other_than_state

NextState ==
    \/ \E p \in Procs : StateLoad(p)
    \/ \E p \in Procs : StateSave(p)
    \/ TickState

\* ------------------------------------------------------------------------
\* The transcript analyzer (src/src/analyzer.rs, src/src/jsonl.rs)
\* ------------------------------------------------------------------------
MaxMessages == 3

\* A Content block (jsonl.rs:29-39).  The text of a text block is kept as its
\* length in bytes and the phrases of analyzer.rs:74-82 it contains in any
\* letter case; no phrase holds a line break, so the joined text of a message
\* contains a phrase exactly when one of its blocks does.
TextBlock(len, phrases) ==
    [content_type |-> "text", name |-> "", len |-> len, phrases |-> phrases]
ToolUse(name) ==
    [content_type |-> "tool_use", name |-> name, len |-> 0, phrases |-> {}]

\* jsonl.rs:10-26  Message and MessageContent
Message(msg_type, role, content) ==
    [msg_type |-> msg_type, role |-> role, content |-> content]

\* jsonl.rs:43-45
Message_is_user(self) == self.msg_type = "user" \/ self.role = "user"

\* jsonl.rs:48-50
Message_is_assistant(self) == self.msg_type = "assistant" \/ self.role = "assistant"

IsToolUse(c) == c.content_type = "tool_use"
IsText(c) == c.content_type = "text"

RECURSIVE SumLen(_)
SumLen(blocks) ==
    IF blocks = << >> THEN 0 ELSE blocks[1].len + SumLen(Tail(blocks))

\* jsonl.rs:53-59
Message_get_tools(self) ==
    LET uses == SelectSeq(self.content, IsToolUse)
    IN  [i \in 1..Len(uses) |-> uses[i].name]

\* jsonl.rs:62-69  the text blocks joined with one "\n" between two of them
Message_get_text(self) ==
    LET texts == SelectSeq(self.content, IsText)
    IN  [ len |-> SumLen(texts) + (IF Len(texts) > 0 THEN Len(texts) - 1 ELSE 0),
          phrases |-> UNION { texts[i].phrases : i \in 1..Len(texts) } ]

\* slice.iter().take(n)
take(seq, n) == SubSeq(seq, 1, IF Len(seq) < n THEN Len(seq) ELSE n)

\* An iterator taken from the front where the code takes it from the back.
rev_not(seq) == seq

\* slice.iter().rev()
RECURSIVE rev(_)
rev(seq) == IF seq = << >> THEN << >> ELSE Append(rev(Tail(seq)), Head(seq))

\* jsonl.rs:114-126  rposition(..).unwrap_or(0) is zero-based; messages[i..]
\* starts at the (i+1)-th message.
get_recent_assistant_messages(msgs, max_count) ==
    LET users == { i \in 1..Len(msgs) : Message_is_user(msgs[i]) }
        last_user_idx ==
            IF users = {} THEN 0
            ELSE (CHOOSE i \in users : \A j \in users : j <= i) - 1
    IN  take(SelectSeq(SubSeq(msgs, last_user_idx + 1, Len(msgs)), Message_is_assistant),
             max_count)

\* analyzer.rs:39-42
ACTIVE_TOOLS ==
    { "Write", "Edit", "Bash", "NotebookEdit", "SlashCommand",
      "KillShell", "Task", "MultiEdit" }

\* analyzer.rs:44-46
READ_LIKE_TOOLS == { "Read", "Grep", "Glob" }

is_active_tool_never(tool) == FALSE

\* analyzer.rs:53-55
is_active_tool(tool) == tool \in ACTIVE_TOOLS

\* analyzer.rs:58-60
is_read_like_tool(tool) == tool \in READ_LIKE_TOOLS

\* analyzer.rs:72-76
check_session_limit(text) ==
    "session limit reached" \in text.phrases
        \/ "session limit has been reached" \in text.phrases

\* analyzer.rs:79-83
check_api_error(text) ==
    "api error: 401" \in text.phrases
        /\ ("run /login" \in text.phrases \/ "please run /login" \in text.phrases)

RecentWindow == 15
LimitWindow == 3
ReviewTextLength == 200

RECURSIVE all_tools_of(_)
\* analyzer.rs:118-124  all_tools
all_tools_of(recent) ==
    IF recent = << >> THEN << >>
    ELSE Message_get_tools(Head(recent)) \o all_tools_of(Tail(recent))

RECURSIVE total_text_length_of(_)
\* analyzer.rs:119-124  total_text_length
total_text_length_of(recent) ==
    IF recent = << >> THEN 0
    ELSE Message_get_text(Head(recent)).len + total_text_length_of(Tail(recent))

\* Iterator::position, zero-based
position(seq, x) ==
    (CHOOSE i \in 1..Len(seq) : seq[i] = x /\ \A j \in 1..(i - 1) : seq[j] # x) - 1

\* analyzer.rs:86-178, on the messages parse_transcript returned
analyze_transcript(msgs, notify_on_text) ==
    LET recent_messages == get_recent_assistant_messages(msgs, RecentWindow)
        last_3 == take(rev(recent_messages), LimitWindow)
        all_tools == all_tools_of(recent_messages)
        total_text_length == total_text_length_of(recent_messages)
        last_tool == IF all_tools = << >> THEN "" ELSE all_tools[Len(all_tools)]
        has_active_tool == \E i \in 1..Len(all_tools) : is_active_tool(all_tools[i])
        has_read_like == \E i \in 1..Len(all_tools) : is_read_like_tool(all_tools[i])
    IN  IF msgs = << >> THEN "Unknown"
        ELSE IF recent_messages = << >> THEN "Unknown"
        ELSE IF \E i \in 1..Len(last_3) : check_session_limit(Message_get_text(last_3[i]))
            THEN "SessionLimitReached"
        ELSE IF \E i \in 1..Len(last_3) : check_api_error(Message_get_text(last_3[i]))
            THEN "ApiError"
        ELSE IF all_tools = << >>
            THEN IF notify_on_text /\ total_text_length > 0
                 THEN "TaskComplete" ELSE "Unknown"
        ELSE IF last_tool = "ExitPlanMode" THEN "PlanReady"
        ELSE IF last_tool = "AskUserQuestion" THEN "Question"
        ELSE IF (\E i \in 1..Len(all_tools) : all_tools[i] = "ExitPlanMode")
                /\ position(all_tools, "ExitPlanMode") < Len(all_tools) - 1
            THEN "TaskComplete"
        ELSE IF ~has_active_tool /\ has_read_like /\ total_text_length > ReviewTextLength
            THEN "ReviewComplete"
        ELSE IF is_active_tool(last_tool) THEN "TaskComplete"
        ELSE IF all_tools # << >> THEN "TaskComplete"
        ELSE "Unknown"

\* The messages a transcript is made of here: a user turn; assistant turns
\* with no tool or one tool (read-like, active, passive, ExitPlanMode,
\* AskUserQuestion) and no text, one text block of 100 bytes, or two blocks
\* of 50 bytes (101 bytes when joined); an assistant turn that reports the
\* session limit, and one that reports the 401 error with the login hint.
TranscriptTools == { "Read", "Write", "WebFetch", "ExitPlanMode", "AskUserQuestion" }
TranscriptTexts ==
    { << >>, << TextBlock(100, {}) >>, << TextBlock(50, {}), TextBlock(50, {}) >> }
UserTurn == Message("user", "user", << TextBlock(10, {}) >>)
AssistantTurns ==
    { Message("assistant", "assistant", tools \o texts) :
        tools \in { << >> } \cup { << ToolUse(t) >> : t \in TranscriptTools },
        texts \in TranscriptTexts }
LimitTurn ==
    Message("assistant", "assistant", << TextBlock(21, {"session limit reached"}) >>)
ApiErrorTurn ==
    Message("assistant", "assistant",
            << TextBlock(14, {"api error: 401"}), TextBlock(17, {"please run /login", "run /login"}) >>)
TranscriptMessages == { UserTurn, LimitTurn, ApiErrorTurn } \cup AssistantTurns

InitAnalyzer ==
    /\ messages = << >>
    /\ an_config \in BOOLEAN
    /\ an_call = None

IdleAnalyzer ==
    /\ messages = << >>
    /\ an_config = FALSE
    /\ an_call = None

\* The host appends a line to the transcript file.
AppendMessage(m) ==
    /\ Len(messages) < MaxMessages
    /\ messages' = Append(messages, m)
    /\ an_call' = None
    /\ UNCHANGED an_config
    /\ UNCHANGED other_than_an

\* analyzer.rs:86-178
AnalyzeTranscript ==
    /\ an_call' = Some(analyze_transcript(messages, an_config))
    /\ UNCHANGED <<messages, an_config>>
    /\ UNCHANGED other_than_an

NextAnalyzer ==
    \/ \E m \in TranscriptMessages : AppendMessage(m)
    \/ AnalyzeTranscript

\* ------------------------------------------------------------------------
\* The PreToolUse entry point (src/src/main.rs)
\* ------------------------------------------------------------------------

\* A String is the sequence of its characters.  str::len() counts UTF-8
\* bytes: the characters used here take one byte, but for these.
TwoByteChars == { "é" }
utf8_len(c) == IF c \in TwoByteChars THEN 2 ELSE 1


\* str::len: one byte for every character and one more for the wide ones
str_len(s) == Len(s) + Cardinality({ i \in 1..Len(s) : utf8_len(s[i]) = 2 })

\* How many leading characters of s fit in its first n bytes.
chars_within(s, n) ==
    CHOOSE k \in 0..Len(s) :
        /\ str_len(SubSeq(s, 1, k)) <= n
        /\ \A j \in (k + 1)..Len(s) : str_len(SubSeq(s, 1, j)) > n

\* str::is_char_boundary: a byte index a slice may end at
is_char_boundary(s, n) == str_len(SubSeq(s, 1, chars_within(s, n))) = n

UpperLetters ==
    << "A", "B", "C", "D", "E", "F", "G", "H", "I", "J", "K", "L", "M",
       "N", "O", "P", "Q", "R", "S", "T", "U", "V", "W", "X", "Y", "Z" >>
LowerLetters ==
    << "a", "b", "c", "d", "e", "f", "g", "h", "i", "j", "k", "l", "m",
       "n", "o", "p", "q", "r", "s", "t", "u", "v", "w", "x", "y", "z" >>
to_lower_char(c) ==
    IF \E i \in 1..26 : UpperLetters[i] = c
    THEN LowerLetters[CHOOSE i \in 1..26 : UpperLetters[i] = c] ELSE c
to_upper_char(c) ==
    IF \E i \in 1..26 : LowerLetters[i] = c
    THEN UpperLetters[CHOOSE i \in 1..26 : LowerLetters[i] = c] ELSE c

\* str::to_lowercase, str::to_uppercase
to_lowercase(s) == [i \in 1..Len(s) |-> to_lower_char(s[i])]
to_uppercase(s) == [i \in 1..Len(s) |-> to_upper_char(s[i])]

WhiteSpace == { " ", "\t", "\n", "\r" }

\* str::trim
trim(s) ==
    LET solid == { i \in 1..Len(s) : s[i] \notin WhiteSpace }
    IN  IF solid = {} THEN << >>
        ELSE SubSeq(s, CHOOSE i \in solid : \A j \in solid : i <= j,
                       CHOOSE i \in solid : \A j \in solid : j <= i)

\* str::find: the one-based place of the first occurrence of sub, 0 if none
find(s, sub) ==
    LET at == { i \in 1..(Len(s) - Len(sub) + 1) : SubSeq(s, i, i + Len(sub) - 1) = sub }
    IN  IF at = {} THEN 0 ELSE CHOOSE i \in at : \A j \in at : i <= j

\* str::contains, str::starts_with
contains(s, sub) == find(s, sub) # 0
starts_with(s, prefix) ==
    Len(prefix) <= Len(s) /\ SubSeq(s, 1, Len(prefix)) = prefix

\* s.split(sep).last(): what remains after the matches of sep, taken from
\* the left without overlap
RECURSIVE split_last(_, _)
split_last(s, sep) ==
    IF find(s, sep) = 0 THEN s
    ELSE split_last(SubSeq(s, find(s, sep) + Len(sep), Len(s)), sep)

\* ---- regular expressions (the regex crate, as far as config uses it) ----
\* An expression is a tree; Pattern pairs the text of the configuration
\* with the tree Regex::new makes of it.
Lit(cs) == [k |-> "in", cs |-> cs]
NotIn(cs) == [k |-> "not_in", cs |-> cs]
Space == Lit(WhiteSpace)
AnyChar == NotIn({ "\n" })
Cat(rs) == [k |-> "cat", rs |-> rs]
Alt(rs) == [k |-> "alt", rs |-> rs]
Opt(r) == [k |-> "opt", r |-> r]
Star(r) == [k |-> "star", r |-> r]
Plus(r) == [k |-> "cat", rs |-> << r, Star(r) >>]
Bol == [k |-> "bol"]
Eol == [k |-> "eol"]
Word(s) == Cat([i \in 1..Len(s) |-> Lit({ s[i] })])
WordI(s) == Cat([i \in 1..Len(s) |-> Lit({ to_lower_char(s[i]), to_upper_char(s[i]) })])
Pattern(src, re) == [src |-> src, re |-> re]

\* The places in s (one-based, Len(s) + 1 for the end) a match of re can end
\* at when it starts at a place of P.
RECURSIVE re_ends(_, _, _)
RECURSIVE re_cat(_, _, _, _)
RECURSIVE re_star(_, _, _)
re_cat(rs, i, s, P) ==
    IF i > Len(rs) \/ P = {} THEN P ELSE re_cat(rs, i + 1, s, re_ends(rs[i], s, P))
\* r*: for a character class, the places reached over a run of characters
\* of the class; for any other r, the closure under one more match of r.
re_star(r, s, P) ==
    IF r.k = "in"
    THEN { q \in 1..(Len(s) + 1) : \E p \in P : p <= q /\ \A i \in p..(q - 1) : s[i] \in r.cs }
    ELSE IF r.k = "not_in"
    THEN { q \in 1..(Len(s) + 1) : \E p \in P : p <= q /\ \A i \in p..(q - 1) : s[i] \notin r.cs }
    ELSE LET N == P \cup re_ends(r, s, P)
         IN  IF N = P THEN P ELSE re_star(r, s, N)
re_ends(re, s, P) ==
    CASE re.k = "in" -> { p + 1 : p \in { q \in P : q <= Len(s) /\ s[q] \in re.cs } }
      [] re.k = "not_in" -> { p + 1 : p \in { q \in P : q <= Len(s) /\ s[q] \notin re.cs } }
      [] re.k = "cat" -> re_cat(re.rs, 1, s, P)
      [] re.k = "alt" -> UNION { re_ends(re.rs[i], s, P) : i \in 1..Len(re.rs) }
      [] re.k = "opt" -> P \cup re_ends(re.r, s, P)
      [] re.k = "star" -> re_star(re.r, s, P)
      [] re.k = "bol" -> P \cap { 1 }
      [] re.k = "eol" -> P \cap { Len(s) + 1 }

\* Regex::is_match: a match may start anywhere
Regex_is_match(pattern, s) == re_ends(pattern.re, s, 1..(Len(s) + 1)) # {}

\* for pattern in patterns { if re.is_match(s) { return Some(..pattern..) } }
first_match(patterns, s) ==
    LET hits == { i \in 1..Len(patterns) : Regex_is_match(patterns[i], s) }
    IN  IF hits = {} THEN None
        ELSE Some(patterns[CHOOSE i \in hits : \A j \in hits : i <= j])

\* main.rs:162-179
default_auto_approve_bash_patterns ==
   << Pattern(<<"^", "g", "i", "t", "\\", "s", "+", "(", "s", "t", "a", "t", "u", "s", "|",
            "l", "o", "g", "|", "d", "i", "f", "f", "|", "b", "r", "a", "n", "c", "h", "|",
            "s", "h", "o", "w", "|", "r", "e", "m", "o", "t", "e", "|", "f", "e", "t", "c",
            "h", ")">>,
        Cat(<<Bol, Word(<<"g", "i", "t">>), Plus(Space), Alt(<<Word(<<"s", "t", "a", "t", "u",
            "s">>), Word(<<"l", "o", "g">>), Word(<<"d", "i", "f", "f">>), Word(<<"b", "r",
            "a", "n", "c", "h">>), Word(<<"s", "h", "o", "w">>), Word(<<"r", "e", "m", "o",
            "t", "e">>), Word(<<"f", "e", "t", "c", "h">>)>>)>>)),
      Pattern(<<"^", "l", "s", "(", "\\", "s", "|", "$", ")">>,
        Cat(<<Bol, Word(<<"l", "s">>), Alt(<<Space, Eol>>)>>)),
      Pattern(<<"^", "p", "w", "d", "$">>,
        Cat(<<Bol, Word(<<"p", "w", "d">>), Eol>>)),
      Pattern(<<"^", "e", "c", "h", "o", "\\", "s">>,
        Cat(<<Bol, Word(<<"e", "c", "h", "o">>), Space>>)),
      Pattern(<<"^", "c", "a", "t", "\\", "s">>,
        Cat(<<Bol, Word(<<"c", "a", "t">>), Space>>)),
      Pattern(<<"^", "h", "e", "a", "d", "\\", "s">>,
        Cat(<<Bol, Word(<<"h", "e", "a", "d">>), Space>>)),
      Pattern(<<"^", "t", "a", "i", "l", "\\", "s">>,
        Cat(<<Bol, Word(<<"t", "a", "i", "l">>), Space>>)),
      Pattern(<<"^", "n", "p", "m", "\\", "s", "+", "(", "l", "i", "s", "t", "|", "l", "s",
            "|", "o", "u", "t", "d", "a", "t", "e", "d", "|", "v", "i", "e", "w", "|", "i",
            "n", "f", "o", "|", "s", "e", "a", "r", "c", "h", ")">>,
        Cat(<<Bol, Word(<<"n", "p", "m">>), Plus(Space), Alt(<<Word(<<"l", "i", "s", "t">>),
            Word(<<"l", "s">>), Word(<<"o", "u", "t", "d", "a", "t", "e", "d">>), Word(<<"v",
            "i", "e", "w">>), Word(<<"i", "n", "f", "o">>), Word(<<"s", "e", "a", "r", "c",
            "h">>)>>)>>)),
      Pattern(<<"^", "n", "o", "d", "e", "\\", "s", "+", "-", "-", "v", "e", "r", "s", "i",
            "o", "n">>,
        Cat(<<Bol, Word(<<"n", "o", "d", "e">>), Plus(Space), Word(<<"-", "-", "v", "e", "r",
            "s", "i", "o", "n">>)>>)),
      Pattern(<<"^", "p", "y", "t", "h", "o", "n", "3", "?", "\\", "s", "+", "-", "-", "v",
            "e", "r", "s", "i", "o", "n">>,
        Cat(<<Bol, Word(<<"p", "y", "t", "h", "o", "n">>), Opt(Lit({"3"})), Plus(Space),
            Word(<<"-", "-", "v", "e", "r", "s", "i", "o", "n">>)>>)),
      Pattern(<<"^", "p", "i", "p", "3", "?", "\\", "s", "+", "(", "l", "i", "s", "t", "|",
            "s", "h", "o", "w", "|", "s", "e", "a", "r", "c", "h", ")">>,
        Cat(<<Bol, Word(<<"p", "i", "p">>), Opt(Lit({"3"})), Plus(Space), Alt(<<Word(<<"l",
            "i", "s", "t">>), Word(<<"s", "h", "o", "w">>), Word(<<"s", "e", "a", "r", "c",
            "h">>)>>)>>)),
      Pattern(<<"^", "d", "o", "c", "k", "e", "r", "\\", "s", "+", "(", "p", "s", "|", "i",
            "m", "a", "g", "e", "s", "|", "i", "n", "s", "p", "e", "c", "t", "|", "l", "o",
            "g", "s", ")">>,
        Cat(<<Bol, Word(<<"d", "o", "c", "k", "e", "r">>), Plus(Space), Alt(<<Word(<<"p",
            "s">>), Word(<<"i", "m", "a", "g", "e", "s">>), Word(<<"i", "n", "s", "p", "e",
            "c", "t">>), Word(<<"l", "o", "g", "s">>)>>)>>)),
      Pattern(<<"^", "g", "h", "\\", "s", "+", "(", "r", "e", "p", "o", "|", "p", "r", "|",
            "i", "s", "s", "u", "e", "|", "r", "e", "l", "e", "a", "s", "e", "|", "r", "u",
            "n", "|", "w", "o", "r", "k", "f", "l", "o", "w", ")", "\\", "s", "+", "(", "v",
            "i", "e", "w", "|", "l", "i", "s", "t", "|", "s", "t", "a", "t", "u", "s", "|",
            "d", "i", "f", "f", "|", "c", "h", "e", "c", "k", "s", ")">>,
        Cat(<<Bol, Word(<<"g", "h">>), Plus(Space), Alt(<<Word(<<"r", "e", "p", "o">>),
            Word(<<"p", "r">>), Word(<<"i", "s", "s", "u", "e">>), Word(<<"r", "e", "l", "e",
            "a", "s", "e">>), Word(<<"r", "u", "n">>), Word(<<"w", "o", "r", "k", "f", "l",
            "o", "w">>)>>), Plus(Space), Alt(<<Word(<<"v", "i", "e", "w">>), Word(<<"l", "i",
            "s", "t">>), Word(<<"s", "t", "a", "t", "u", "s">>), Word(<<"d", "i", "f", "f">>),
            Word(<<"c", "h", "e", "c", "k", "s">>)>>)>>)),
      Pattern(<<"^", "g", "h", "\\", "s", "+", "a", "p", "i", "\\", "s">>,
        Cat(<<Bol, Word(<<"g", "h">>), Plus(Space), Word(<<"a", "p", "i">>), Space>>)),
      Pattern(<<"^", "g", "h", "\\", "s", "+", "a", "u", "t", "h", "\\", "s", "+", "s", "t",
            "a", "t", "u", "s">>,
        Cat(<<Bol, Word(<<"g", "h">>), Plus(Space), Word(<<"a", "u", "t", "h">>), Plus(Space),
            Word(<<"s", "t", "a", "t", "u", "s">>)>>)),
      Pattern(<<"^", "(", "w", "h", "o", "a", "m", "i", "|", "h", "o", "s", "t", "n", "a", "m",
            "e", "|", "d", "a", "t", "e", "|", "u", "n", "a", "m", "e", "|", "e", "n", "v",
            ")", "$">>,
        Cat(<<Bol, Alt(<<Word(<<"w", "h", "o", "a", "m", "i">>), Word(<<"h", "o", "s", "t",
            "n", "a", "m", "e">>), Word(<<"d", "a", "t", "e">>), Word(<<"u", "n", "a", "m",
            "e">>), Word(<<"e", "n", "v">>)>>), Eol>>)) >>

\* main.rs:182-196
default_auto_deny_bash_patterns ==
   << Pattern(<<"r", "m", "\\", "s", "+", "(", "-", "r", "f", "?", "|", "-", "-", "r", "e",
            "c", "u", "r", "s", "i", "v", "e", ")", "?", "\\", "s", "*", "[", "/", "~", "]">>,
        Cat(<<Word(<<"r", "m">>), Plus(Space), Opt(Cat(<<Lit({"-"}), Alt(<<Cat(<<Lit({"r"}),
            Opt(Lit({"f"}))>>), Word(<<"-", "r", "e", "c", "u", "r", "s", "i", "v",
            "e">>)>>)>>)), Star(Space), Lit({"/", "~"})>>)),
      Pattern(<<"r", "m", "\\", "s", "+", "-", "r", "f", "?", "\\", "s", "+", "\\", "*">>,
        Cat(<<Word(<<"r", "m">>), Plus(Space), Word(<<"-", "r">>), Opt(Lit({"f"})),
            Plus(Space), Lit({"*"})>>)),
      Pattern(<<"g", "i", "t", "\\", "s", "+", "p", "u", "s", "h", ".", "*", "-", "-", "f",
            "o", "r", "c", "e">>,
        Cat(<<Word(<<"g", "i", "t">>), Plus(Space), Word(<<"p", "u", "s", "h">>),
            Star(AnyChar), Word(<<"-", "-", "f", "o", "r", "c", "e">>)>>)),
      Pattern(<<"g", "i", "t", "\\", "s", "+", "r", "e", "s", "e", "t", "\\", "s", "+", "-",
            "-", "h", "a", "r", "d">>,
        Cat(<<Word(<<"g", "i", "t">>), Plus(Space), Word(<<"r", "e", "s", "e", "t">>),
            Plus(Space), Word(<<"-", "-", "h", "a", "r", "d">>)>>)),
      Pattern(<<"c", "u", "r", "l", ".", "*", "\\", "|", "\\", "s", "*", "(", "b", "a", ")",
            "?", "s", "h">>,
        Cat(<<Word(<<"c", "u", "r", "l">>), Star(AnyChar), Lit({"|"}), Star(Space),
            Opt(Word(<<"b", "a">>)), Word(<<"s", "h">>)>>)),
      Pattern(<<"w", "g", "e", "t", ".", "*", "\\", "|", "\\", "s", "*", "(", "b", "a", ")",
            "?", "s", "h">>,
        Cat(<<Word(<<"w", "g", "e", "t">>), Star(AnyChar), Lit({"|"}), Star(Space),
            Opt(Word(<<"b", "a">>)), Word(<<"s", "h">>)>>)),
      Pattern(<<"s", "u", "d", "o", "\\", "s", "+", "r", "m">>,
        Cat(<<Word(<<"s", "u", "d", "o">>), Plus(Space), Word(<<"r", "m">>)>>)),
      Pattern(<<"n", "p", "m", "\\", "s", "+", "p", "u", "b", "l", "i", "s", "h">>,
        Cat(<<Word(<<"n", "p", "m">>), Plus(Space), Word(<<"p", "u", "b", "l", "i", "s",
            "h">>)>>)),
      Pattern(<<"y", "a", "r", "n", "\\", "s", "+", "p", "u", "b", "l", "i", "s", "h">>,
        Cat(<<Word(<<"y", "a", "r", "n">>), Plus(Space), Word(<<"p", "u", "b", "l", "i", "s",
            "h">>)>>)),
      Pattern(<<"m", "k", "f", "s", "\\", ".">>,
        Word(<<"m", "k", "f", "s", ".">>)),
      Pattern(<<"d", "d", "\\", "s", "+", ".", "*", "o", "f", "=", "/", "d", "e", "v">>,
        Cat(<<Word(<<"d", "d">>), Plus(Space), Star(AnyChar), Word(<<"o", "f", "=", "/", "d",
            "e", "v">>)>>)),
      Pattern(<<">", "\\", "s", "*", "/", "e", "t", "c", "/">>,
        Cat(<<Lit({">"}), Star(Space), Word(<<"/", "e", "t", "c", "/">>)>>)),
      Pattern(<<"c", "h", "m", "o", "d", "\\", "s", "+", "(", "-", "R", "\\", "s", "+", ")",
            "?", "7", "7", "7", "\\", "s", "+", "/">>,
        Cat(<<Word(<<"c", "h", "m", "o", "d">>), Plus(Space), Opt(Cat(<<Word(<<"-", "R">>),
            Plus(Space)>>)), Word(<<"7", "7", "7">>), Plus(Space), Lit({"/"})>>)) >>

\* main.rs:197-204
default_protected_paths ==
   << Pattern(<<"^", "/", "e", "t", "c", "/">>,
        Cat(<<Bol, Word(<<"/", "e", "t", "c", "/">>)>>)),
      Pattern(<<"^", "/", "u", "s", "r", "/">>,
        Cat(<<Bol, Word(<<"/", "u", "s", "r", "/">>)>>)),
      Pattern(<<"^", "/", "b", "i", "n", "/">>,
        Cat(<<Bol, Word(<<"/", "b", "i", "n", "/">>)>>)),
      Pattern(<<"^", "/", "s", "b", "i", "n", "/">>,
        Cat(<<Bol, Word(<<"/", "s", "b", "i", "n", "/">>)>>)),
      Pattern(<<"(", "?", "i", ")", "^", "C", ":", "\\", "\\", "W", "i", "n", "d", "o", "w",
            "s">>,
        Cat(<<Bol, WordI(<<"C", ":", "\\", "W", "i", "n", "d", "o", "w", "s">>)>>)),
      Pattern(<<"(", "?", "i", ")", "^", "C", ":", "\\", "\\", "P", "r", "o", "g", "r", "a",
            "m", " ", "F", "i", "l", "e", "s">>,
        Cat(<<Bol, WordI(<<"C", ":", "\\", "P", "r", "o", "g", "r", "a", "m", " ", "F", "i",
            "l", "e", "s">>)>>)) >>

\* main.rs:208-215
default_dangerous_python_patterns ==
   << Pattern(<<"o", "s", "\\", ".", "r", "e", "m", "o", "v", "e">>,
        Word(<<"o", "s", ".", "r", "e", "m", "o", "v", "e">>)),
      Pattern(<<"o", "s", "\\", ".", "u", "n", "l", "i", "n", "k">>,
        Word(<<"o", "s", ".", "u", "n", "l", "i", "n", "k">>)),
      Pattern(<<"o", "s", "\\", ".", "r", "m", "d", "i", "r">>,
        Word(<<"o", "s", ".", "r", "m", "d", "i", "r">>)),
      Pattern(<<"o", "s", "\\", ".", "s", "y", "s", "t", "e", "m">>,
        Word(<<"o", "s", ".", "s", "y", "s", "t", "e", "m">>)),
      Pattern(<<"s", "h", "u", "t", "i", "l", "\\", ".", "r", "m", "t", "r", "e", "e">>,
        Word(<<"s", "h", "u", "t", "i", "l", ".", "r", "m", "t", "r", "e", "e">>)),
      Pattern(<<"s", "u", "b", "p", "r", "o", "c", "e", "s", "s">>,
        Word(<<"s", "u", "b", "p", "r", "o", "c", "e", "s", "s">>)) >>

\* main.rs:216-222
default_dangerous_node_patterns ==
   << Pattern(<<"c", "h", "i", "l", "d", "_", "p", "r", "o", "c", "e", "s", "s">>,
        Word(<<"c", "h", "i", "l", "d", "_", "p", "r", "o", "c", "e", "s", "s">>)),
      Pattern(<<"f", "s", "\\", ".", "u", "n", "l", "i", "n", "k">>,
        Word(<<"f", "s", ".", "u", "n", "l", "i", "n", "k">>)),
      Pattern(<<"f", "s", "\\", ".", "r", "m", "d", "i", "r">>,
        Word(<<"f", "s", ".", "r", "m", "d", "i", "r">>)),
      Pattern(<<"f", "s", "\\", ".", "r", "m", "\\", "(">>,
        Word(<<"f", "s", ".", "r", "m", "(">>)),
      Pattern(<<"r", "i", "m", "r", "a", "f">>,
        Word(<<"r", "i", "m", "r", "a", "f">>)) >>

\* main.rs:223-239
default_dangerous_powershell_patterns ==
   << Pattern(<<"(", "?", "i", ")", "R", "e", "m", "o", "v", "e", "-", "I", "t", "e", "m">>,
        WordI(<<"R", "e", "m", "o", "v", "e", "-", "I", "t", "e", "m">>)),
      Pattern(<<"(", "?", "i", ")", "r", "m", "\\", "s", "+", "-", "r">>,
        Cat(<<WordI(<<"r", "m">>), Plus(Space), WordI(<<"-", "r">>)>>)),
      Pattern(<<"(", "?", "i", ")", "d", "e", "l", "\\", "s", "+", "-", "r">>,
        Cat(<<WordI(<<"d", "e", "l">>), Plus(Space), WordI(<<"-", "r">>)>>)),
      Pattern(<<"(", "?", "i", ")", "S", "t", "o", "p", "-", "P", "r", "o", "c", "e", "s",
            "s">>,
        WordI(<<"S", "t", "o", "p", "-", "P", "r", "o", "c", "e", "s", "s">>)),
      Pattern(<<"(", "?", "i", ")", "K", "i", "l", "l">>,
        WordI(<<"K", "i", "l", "l">>)),
      Pattern(<<"(", "?", "i", ")", "F", "o", "r", "m", "a", "t", "-", "V", "o", "l", "u", "m",
            "e">>,
        WordI(<<"F", "o", "r", "m", "a", "t", "-", "V", "o", "l", "u", "m", "e">>)),
      Pattern(<<"(", "?", "i", ")", "C", "l", "e", "a", "r", "-", "D", "i", "s", "k">>,
        WordI(<<"C", "l", "e", "a", "r", "-", "D", "i", "s", "k">>)),
      Pattern(<<"(", "?", "i", ")", "I", "n", "i", "t", "i", "a", "l", "i", "z", "e", "-", "D",
            "i", "s", "k">>,
        WordI(<<"I", "n", "i", "t", "i", "a", "l", "i", "z", "e", "-", "D", "i", "s", "k">>)),
      Pattern(<<"(", "?", "i", ")", "I", "n", "v", "o", "k", "e", "-", "E", "x", "p", "r", "e",
            "s", "s", "i", "o", "n">>,
        WordI(<<"I", "n", "v", "o", "k", "e", "-", "E", "x", "p", "r", "e", "s", "s", "i", "o",
            "n">>)),
      Pattern(<<"(", "?", "i", ")", "i", "e", "x", "\\", "s">>,
        Cat(<<WordI(<<"i", "e", "x">>), Space>>)),
      Pattern(<<"(", "?", "i", ")", "S", "t", "a", "r", "t", "-", "P", "r", "o", "c", "e", "s",
            "s", ".", "*", "-", "V", "e", "r", "b", "\\", "s", "+", "R", "u", "n", "A", "s">>,
        Cat(<<WordI(<<"S", "t", "a", "r", "t", "-", "P", "r", "o", "c", "e", "s", "s">>),
            Star(AnyChar), WordI(<<"-", "V", "e", "r", "b">>), Plus(Space), WordI(<<"R", "u",
            "n", "A", "s">>)>>)),
      Pattern(<<"(", "?", "i", ")", "S", "e", "t", "-", "E", "x", "e", "c", "u", "t", "i", "o",
            "n", "P", "o", "l", "i", "c", "y">>,
        WordI(<<"S", "e", "t", "-", "E", "x", "e", "c", "u", "t", "i", "o", "n", "P", "o", "l",
            "i", "c", "y">>)),
      Pattern(<<"(", "?", "i", ")", "D", "i", "s", "a", "b", "l", "e", "-">>,
        WordI(<<"D", "i", "s", "a", "b", "l", "e", "-">>)),
      Pattern(<<"(", "?", "i", ")", "S", "t", "o", "p", "-", "S", "e", "r", "v", "i", "c",
            "e">>,
        WordI(<<"S", "t", "o", "p", "-", "S", "e", "r", "v", "i", "c", "e">>)),
      Pattern(<<"(", "?", "i", ")", "U", "n", "i", "n", "s", "t", "a", "l", "l", "-">>,
        WordI(<<"U", "n", "i", "n", "s", "t", "a", "l", "l", "-">>)) >>

\* main.rs:366, 375  the expressions up to their group: ^python3?\s+-c\s+
python_prefix ==
    Cat(<<Bol, Word(<<"p", "y", "t", "h", "o", "n">>), Opt(Lit({"3"})), Plus(Space),
            Word(<<"-", "c">>), Plus(Space)>>)

\* main.rs:384, 393  ^node\s+-e\s+
node_prefix ==
    Cat(<<Bol, Word(<<"n", "o", "d", "e">>), Plus(Space), Word(<<"-", "e">>), Plus(Space)>>)

\* main.rs:402, 411  (?i)^powershell(?:\.exe)?\s+(?:-Command|-c)\s+
powershell_prefix ==
    Cat(<<Bol, WordI(<<"p", "o", "w", "e", "r", "s", "h", "e", "l", "l">>), Opt(WordI(<<".",
            "e", "x", "e">>)), Plus(Space), Lit({"-"}), Alt(<<WordI(<<"C", "o", "m", "m", "a",
            "n", "d">>), WordI(<<"c">>)>>), Plus(Space)>>)

\* main.rs:154-251
default_config ==
    [ auto_approve |->
        [ tools |-> << <<"R", "e", "a", "d">>, <<"G", "l", "o", "b">>, <<"G", "r", "e", "p">>, <<"W", "e", "b", "F", "e", "t", "c", "h">>, <<"W", "e", "b", "S", "e", "a", "r", "c", "h">>,
                       <<"T", "a", "s", "k", "L", "i", "s", "t">>, <<"T", "a", "s", "k", "G", "e", "t">> >>,
          bash_patterns |-> default_auto_approve_bash_patterns ],
      auto_deny |->
        [ bash_patterns |-> default_auto_deny_bash_patterns,
          protected_paths |-> default_protected_paths ],
      inline_scripts |->
        [ enabled |-> TRUE,
          dangerous_python_patterns |-> default_dangerous_python_patterns,
          dangerous_node_patterns |-> default_dangerous_node_patterns,
          dangerous_powershell_patterns |-> default_dangerous_powershell_patterns ],
      ambiguous |->
        [ mode |-> "ask",
          llm |-> [ model |-> "openai/gpt-4o-mini", api_key |-> "",
                    base_url |-> "https://openrouter.ai/api/v1" ] ],
      logging |-> [ enabled |-> TRUE, verbose |-> FALSE ] ]

\* The config.json files of the model: none or an unreadable one, and files
\* that differ from the defaults in the logging switches, in the classifier
\* settings and in whether Write is an auto-approved tool.
ConfigFiles ==
    { [ok |-> FALSE, config |-> default_config] } \cup
    { [ok |-> TRUE,
       config |-> [default_config EXCEPT
                     !.logging = [enabled |-> e, verbose |-> v],
                     !.ambiguous.mode = a[1],
                     !.ambiguous.llm.api_key = a[2],
                     !.auto_approve.tools = @ \o t]] :
        e \in BOOLEAN, v \in BOOLEAN,
        a \in { <<"ask", "">>, <<"llm", "">>, <<"llm", "sk-1">> },
        t \in { << >>, << <<"W", "r", "i", "t", "e">> >> } }

\* main.rs:279-289
load_config(file) == IF file.ok THEN file.config ELSE default_config

\* main.rs:295-301  &s[..max_len] panics when max_len is not a character
\* boundary of s
truncate(s, max_len) ==
    IF str_len(s) <= max_len THEN [panic |-> FALSE, value |-> s]
    ELSE IF is_char_boundary(s, max_len)
         THEN [panic |-> FALSE,
               value |-> SubSeq(s, 1, chars_within(s, max_len)) \o <<".", ".", ".">>]
         ELSE [panic |-> TRUE, value |-> << >>]

PromptLines == 50

\* main.rs:303-325  the lines kept of recent_prompts.log, and the new one
log_prompt(existing, tool, details) ==
    LET skip_count == IF Len(existing) > PromptLines THEN Len(existing) - PromptLines ELSE 0
        detail_str == IF is_some(details) THEN unwrap(details) ELSE <<"-">>
    IN  SubSeq(existing, skip_count + 1, Len(existing))
            \o << tool \o <<" ", "|", " ">> \o detail_str >>

ReasonLimit == 150
DetailsLimit == 100

\* main.rs:327-352  the LogEntry appended to decisions.log (without its
\* timestamp); writable says whether the log file could be opened
log_decision(config, tool, decision, reason, details, writable) ==
    IF ~config.logging.enabled THEN [panic |-> FALSE, entries |-> << >>]
    ELSE LET r == truncate(reason, ReasonLimit)
             d == IF is_some(details) THEN truncate(unwrap(details), DetailsLimit)
                  ELSE [panic |-> FALSE, value |-> << >>]
         IN  IF r.panic \/ d.panic THEN [panic |-> TRUE, entries |-> << >>]
             ELSE IF ~writable THEN [panic |-> FALSE, entries |-> << >>]
             ELSE [panic |-> FALSE,
                   entries |-> << [tool |-> tool, decision |-> decision,
                                   reason |-> r.value,
                                   details |-> IF is_some(details)
                                               THEN Some(d.value) ELSE None] >>]

\* serde_json::Value objects: the keys main reads, each absent or a string
JsonKeys == { "command", "file_path", "path", "notebook_path", "pattern", "url" }
EmptyObject == [k \in JsonKeys |-> None]
\* input.get(key).and_then(|v| v.as_str())
get_str(input, key) == input[key]

Quotes == { "\"", "'" }
no_newline(s, a, b) == \A i \in a..b : s[i] # "\n"
max_of(S) == CHOOSE x \in S : \A y \in S : y <= x

\* captures of PREFIX["'](.*)["'] (main.rs:366, 384, 402): group 1 runs from
\* the quote after the prefix to the last quote it can reach
captures_quoted(prefix, s) ==
    LET closes(p) == { q \in (p + 1)..Len(s) : s[q] \in Quotes /\ no_newline(s, p + 1, q - 1) }
        opens == { p \in re_ends(prefix, s, { 1 }) :
                     p <= Len(s) /\ s[p] \in Quotes /\ closes(p) # {} }
    IN  IF opens = {} THEN None
        ELSE LET p == max_of(opens)
             IN  Some(SubSeq(s, p + 1, max_of(closes(p)) - 1))

\* captures of PREFIX(\S.*)$ (main.rs:375, 393)
captures_rest_solid(prefix, s) ==
    LET starts == { p \in re_ends(prefix, s, { 1 }) :
                      p <= Len(s) /\ s[p] \notin WhiteSpace /\ no_newline(s, p + 1, Len(s)) }
    IN  IF starts = {} THEN None ELSE Some(SubSeq(s, max_of(starts), Len(s)))

\* captures of PREFIX(.+)$ (main.rs:411): the \s+ before the group is greedy
captures_rest(prefix, s) ==
    LET starts == { p \in re_ends(prefix, s, { 1 }) : p <= Len(s) /\ no_newline(s, p, Len(s)) }
    IN  IF starts = {} THEN None ELSE Some(SubSeq(s, max_of(starts), Len(s)))

InlineScript(script_type, content) == [script_type |-> script_type, content |-> content]

\* main.rs:364-420
parse_inline_script(command) ==
    IF is_some(captures_quoted(python_prefix, command))
        THEN Some(InlineScript("python", unwrap(captures_quoted(python_prefix, command))))
    ELSE IF is_some(captures_rest_solid(python_prefix, command))
        THEN Some(InlineScript("python", unwrap(captures_rest_solid(python_prefix, command))))
    ELSE IF is_some(captures_quoted(node_prefix, command))
        THEN Some(InlineScript("node", unwrap(captures_quoted(node_prefix, command))))
    ELSE IF is_some(captures_rest_solid(node_prefix, command))
        THEN Some(InlineScript("node", unwrap(captures_rest_solid(node_prefix, command))))
    ELSE IF is_some(captures_quoted(powershell_prefix, command))
        THEN Some(InlineScript("powershell", unwrap(captures_quoted(powershell_prefix, command))))
    ELSE IF is_some(captures_rest(powershell_prefix, command))
        THEN Some(InlineScript("powershell", unwrap(captures_rest(powershell_prefix, command))))
    ELSE None

ScriptTypeName(script_type) ==
    CASE script_type = "python" -> <<"p", "y", "t", "h", "o", "n">>
      [] script_type = "node" -> <<"n", "o", "d", "e">>
      [] script_type = "powershell" -> <<"p", "o", "w", "e", "r", "s", "h", "e", "l", "l">>

\* main.rs:422-442
is_inline_script_safe(config, script) ==
    LET patterns ==
            CASE script.script_type = "python" -> config.inline_scripts.dangerous_python_patterns
              [] script.script_type = "node" -> config.inline_scripts.dangerous_node_patterns
              [] script.script_type = "powershell" -> config.inline_scripts.dangerous_powershell_patterns
        hit == first_match(patterns, script.content)
    IN  IF is_some(hit)
        THEN [safe |-> FALSE,
              reason |-> <<"I", "n", "l", "i", "n", "e", " ">> \o ScriptTypeName(script.script_type)
                         \o <<" ", "s", "c", "r", "i", "p", "t", " ", "c", "o", "n", "t", "a", "i", "n", "s", " ", "d", "a", "n", "g", "e", "r", "o", "u", "s", " ", "p", "a", "t", "t", "e", "r", "n", ":", " ">> \o unwrap(hit).src]
        ELSE [safe |-> TRUE,
              reason |-> <<"I", "n", "l", "i", "n", "e", " ">> \o ScriptTypeName(script.script_type)
                         \o <<" ", "s", "c", "r", "i", "p", "t", " ", "p", "a", "s", "s", "e", "d", " ", "s", "a", "f", "e", "t", "y", " ", "c", "h", "e", "c", "k">>]

McpPrefix == <<"m", "c", "p", "_", "_">>
McpSeparator == <<"_", "_">>

\* main.rs:483
McpSafePatterns ==
    << <<"g", "e", "t">>, <<"l", "i", "s", "t">>, <<"r", "e", "a", "d">>, <<"f", "e", "t", "c", "h">>, <<"s", "e", "a", "r", "c", "h">>, <<"f", "i", "n", "d">>, <<"q", "u", "e", "r", "y">>,
       <<"v", "i", "e", "w">>, <<"s", "h", "o", "w">>, <<"d", "e", "s", "c", "r", "i", "b", "e">>, <<"i", "n", "s", "p", "e", "c", "t">>, <<"s", "t", "a", "t", "u", "s">>, <<"h", "e", "a", "l", "t", "h">> >>

\* main.rs:533
McpDangerousPatterns ==
    << <<"d", "e", "l", "e", "t", "e">>, <<"r", "e", "m", "o", "v", "e">>, <<"d", "e", "s", "t", "r", "o", "y">>, <<"d", "r", "o", "p">>, <<"c", "l", "e", "a", "r">>, <<"w", "i", "p", "e">>,
       <<"p", "u", "r", "g", "e">>, <<"e", "r", "a", "s", "e">>, <<"r", "e", "s", "e", "t">>, <<"t", "r", "u", "n", "c", "a", "t", "e">> >>

\* main.rs:482, 532
mcp_tool_name_of(tool_name) == to_lowercase(split_last(tool_name, McpSeparator))

\* main.rs:448-493  Tier 1
is_auto_approved(config, tool_name, input) ==
    LET tools == config.auto_approve.tools
        command == trim(unwrap(get_str(input, "command")))
        safe == first_match(config.auto_approve.bash_patterns, command)
        script == parse_inline_script(command)
        mcp_tool_name == mcp_tool_name_of(tool_name)
    IN  IF \E i \in 1..Len(tools) : tools[i] = tool_name
        THEN Some(<<"T", "o", "o", "l", " ", "\"">> \o tool_name \o <<"\"", " ", "i", "s", " ", "i", "n", " ", "a", "u", "t", "o", "-", "a", "p", "p", "r", "o", "v", "e", " ", "l", "i", "s", "t">>)
        ELSE IF tool_name = <<"B", "a", "s", "h">> /\ is_some(get_str(input, "command")) /\ is_some(safe)
        THEN Some(<<"B", "a", "s", "h", " ", "c", "o", "m", "m", "a", "n", "d", " ", "m", "a", "t", "c", "h", "e", "s", " ", "s", "a", "f", "e", " ", "p", "a", "t", "t", "e", "r", "n", ":", " ">> \o unwrap(safe).src)
        ELSE IF /\ tool_name = <<"B", "a", "s", "h">> /\ is_some(get_str(input, "command"))
                /\ config.inline_scripts.enabled /\ is_some(script)
                /\ is_inline_script_safe(config, unwrap(script)).safe
        THEN Some(is_inline_script_safe(config, unwrap(script)).reason)
        ELSE IF /\ starts_with(tool_name, McpPrefix)
                /\ \E i \in 1..Len(McpSafePatterns) : contains(mcp_tool_name, McpSafePatterns[i])
        THEN Some(<<"M", "C", "P", " ", "t", "o", "o", "l", " ", "\"">> \o mcp_tool_name \o <<"\"", " ", "a", "p", "p", "e", "a", "r", "s", " ", "t", "o", " ", "b", "e", " ", "r", "e", "a", "d", "-", "o", "n", "l", "y">>)
        ELSE None

FileTools == { <<"W", "r", "i", "t", "e">>, <<"E", "d", "i", "t">>, <<"N", "o", "t", "e", "b", "o", "o", "k", "E", "d", "i", "t">> }

\* main.rs:499-543  Tier 2
is_auto_denied(config, tool_name, input) ==
    LET dangerous == first_match(config.auto_deny.bash_patterns, unwrap(get_str(input, "command")))
        file_path ==
            IF is_some(get_str(input, "file_path")) THEN unwrap(get_str(input, "file_path"))
            ELSE IF is_some(get_str(input, "path")) THEN unwrap(get_str(input, "path"))
            ELSE IF is_some(get_str(input, "notebook_path"))
                 THEN unwrap(get_str(input, "notebook_path"))
            ELSE << >>
        mcp_tool_name == mcp_tool_name_of(tool_name)
    IN  IF tool_name = <<"B", "a", "s", "h">> /\ is_some(get_str(input, "command")) /\ is_some(dangerous)
        THEN Some(<<"B", "a", "s", "h", " ", "c", "o", "m", "m", "a", "n", "d", " ", "m", "a", "t", "c", "h", "e", "s", " ", "d", "a", "n", "g", "e", "r", "o", "u", "s", " ", "p", "a", "t", "t", "e", "r", "n", ":", " ">> \o unwrap(dangerous).src)
        ELSE IF /\ tool_name \in FileTools
                /\ is_some(first_match(config.auto_deny.protected_paths, file_path))
        THEN Some(<<"F", "i", "l", "e", " ", "p", "a", "t", "h", " ", "\"">> \o file_path \o <<"\"", " ", "i", "s", " ", "p", "r", "o", "t", "e", "c", "t", "e", "d">>)
        ELSE IF /\ starts_with(tool_name, McpPrefix)
                /\ \E i \in 1..Len(McpDangerousPatterns) :
                       contains(mcp_tool_name, McpDangerousPatterns[i])
        THEN Some(<<"M", "C", "P", " ", "t", "o", "o", "l", " ", "\"">> \o mcp_tool_name \o <<"\"", " ", "a", "p", "p", "e", "a", "r", "s", " ", "d", "e", "s", "t", "r", "u", "c", "t", "i", "v", "e">>)
        ELSE None

\* main.rs:550
llm_configured(config) == config.ambiguous.mode = "llm" /\ config.ambiguous.llm.api_key # ""

\* What the request of main.rs:578-593 can come back with: None when the
\* transport fails or the body has no message content, or Some(content).
LlmReplies ==
    { None, Some(<<"S", "A", "F", "E">>), Some(<<"D", "A", "N", "G", "E", "R", "O", "U", "S">>), Some(<<" ", "s", "a", "f", "e", "\n">>), Some(<<"U", "N", "S", "U", "R", "E">>) }

\* main.rs:549-604  Tier 3
ask_llm(config, reply) ==
    IF ~llm_configured(config) THEN None
    ELSE IF ~is_some(reply) THEN None
    ELSE IF to_uppercase(trim(unwrap(reply))) = <<"S", "A", "F", "E">>
        THEN Some([decision |-> "allow", reason |-> <<"L", "L", "M", " ", "d", "e", "t", "e", "r", "m", "i", "n", "e", "d", " ", "o", "p", "e", "r", "a", "t", "i", "o", "n", " ", "i", "s", " ", "s", "a", "f", "e">>])
    ELSE IF to_uppercase(trim(unwrap(reply))) = <<"D", "A", "N", "G", "E", "R", "O", "U", "S">>
        THEN Some([decision |-> "deny", reason |-> <<"L", "L", "M", " ", "d", "e", "t", "e", "r", "m", "i", "n", "e", "d", " ", "o", "p", "e", "r", "a", "t", "i", "o", "n", " ", "i", "s", " ", "d", "a", "n", "g", "e", "r", "o", "u", "s">>])
    ELSE None

\* main.rs:94-99  ToolPayload
ToolPayload(tool_name, tool, tool_input, input) ==
    [tool_name |-> tool_name, tool |-> tool, tool_input |-> tool_input, input |-> input]

\* main.rs:628-630
payload_tool_name(payload) ==
    IF is_some(payload.tool_name) THEN unwrap(payload.tool_name)
    ELSE IF is_some(payload.tool) THEN unwrap(payload.tool)
    ELSE << >>

\* main.rs:632-634
payload_tool_input(payload) ==
    IF is_some(payload.tool_input) THEN unwrap(payload.tool_input)
    ELSE IF is_some(payload.input) THEN unwrap(payload.input)
    ELSE EmptyObject

\* main.rs:637-641
extract_details(tool_input) ==
    IF is_some(tool_input["command"]) THEN tool_input["command"]
    ELSE IF is_some(tool_input["file_path"]) THEN tool_input["file_path"]
    ELSE IF is_some(tool_input["pattern"]) THEN tool_input["pattern"]
    ELSE tool_input["url"]

\* main.rs:673
prompt_reason(tool_name, details) ==
    <<"P", "r", "o", "m", "p", "t", "i", "n", "g", " ", "u", "s", "e", "r", " ", "f", "o", "r", ":", " ">> \o tool_name \o <<" ", "(">>
        \o (IF is_some(details) THEN unwrap(details) ELSE <<"n", "o", " ", "d", "e", "t", "a", "i", "l", "s">>) \o <<")">>

HookTag == <<"[", "p", "e", "r", "m", "i", "s", "s", "i", "o", "n", "-", "h", "o", "o", "k", "]", " ">>

main_tiers_deny_first(config, tool_name, tool_input, details, reply) ==
    LET approved == is_auto_approved(config, tool_name, tool_input)
        denied == is_auto_denied(config, tool_name, tool_input)
        llm == ask_llm(config, reply)
    IN  IF is_some(denied)
        THEN [decision |-> "deny", reason |-> unwrap(denied), asked_llm |-> FALSE,
              exit |-> 2,
              err |-> << HookTag \o <<"D", "E", "N", "Y", ":", " ">> \o tool_name \o <<" ", "-", " ">> \o unwrap(denied) >>]
        ELSE IF is_some(approved)
        THEN [decision |-> "allow", reason |-> unwrap(approved), asked_llm |-> FALSE,
              exit |-> 0,
              err |-> IF config.logging.verbose
                      THEN << HookTag \o <<"A", "L", "L", "O", "W", ":", " ">> \o tool_name \o <<" ", "-", " ">> \o unwrap(approved) >>
                      ELSE << >>]
        ELSE IF is_some(llm)
        THEN [decision |-> unwrap(llm).decision, reason |-> unwrap(llm).reason,
              asked_llm |-> TRUE,
              exit |-> IF unwrap(llm).decision = "allow" THEN 0 ELSE 2,
              err |-> IF unwrap(llm).decision = "allow" THEN << >>
                      ELSE << unwrap(llm).reason >>]
        ELSE [decision |-> "prompt", reason |-> prompt_reason(tool_name, details),
              asked_llm |-> llm_configured(config),
              exit |-> 0,
              err |-> << HookTag \o prompt_reason(tool_name, details) >>]

\* main.rs:643-682  which tier decides: the decision it logs, its reason,
\* whether a request went to the classifier, the exit status and the lines
\* for the standard error
main_tiers(config, tool_name, tool_input, details, reply) ==
    LET approved == is_auto_approved(config, tool_name, tool_input)
        denied == is_auto_denied(config, tool_name, tool_input)
        llm == ask_llm(config, reply)
    IN  IF is_some(approved)
        THEN [decision |-> "allow", reason |-> unwrap(approved), asked_llm |-> FALSE,
              exit |-> 0,
              err |-> IF config.logging.verbose
                      THEN << HookTag \o <<"A", "L", "L", "O", "W", ":", " ">> \o tool_name \o <<" ", "-", " ">> \o unwrap(approved) >>
                      ELSE << >>]
        ELSE IF is_some(denied)
        THEN [decision |-> "deny", reason |-> unwrap(denied), asked_llm |-> FALSE,
              exit |-> 2,
              err |-> << HookTag \o <<"D", "E", "N", "Y", ":", " ">> \o tool_name \o <<" ", "-", " ">> \o unwrap(denied) >>]
        ELSE IF is_some(llm)
        THEN [decision |-> unwrap(llm).decision, reason |-> unwrap(llm).reason,
              asked_llm |-> TRUE,
              exit |-> IF unwrap(llm).decision = "allow" THEN 0 ELSE 2,
              err |-> IF unwrap(llm).decision = "allow" THEN << >>
                      ELSE << unwrap(llm).reason >>]
        ELSE [decision |-> "prompt", reason |-> prompt_reason(tool_name, details),
              asked_llm |-> llm_configured(config),
              exit |-> 0,
              err |-> << HookTag \o prompt_reason(tool_name, details) >>]

\* main.rs:116-127
HookResponse_allow(reason) ==
    [ hook_specific_output |->
        [ hook_event_name |-> "PreToolUse",
          permission_decision |-> "allow",
          permission_decision_reason |-> reason ],
      suppress_output |-> TRUE ]

\* What the host can write to the standard input: json says whether
\* serde_json makes a ToolPayload of it (main.rs:623-626).
StdinInput(json, payload) == [json |-> json, payload |-> payload]

Object(pairs) ==
    [k \in JsonKeys |->
        IF \E p \in pairs : p[1] = k THEN Some((CHOOSE p \in pairs : p[1] = k)[2]) ELSE None]

Repeat(c, n) == [i \in 1..n |-> c]

\* The payloads of the model; the comments name what each is for.
StdinInputs ==
    {
      \* not JSON, or JSON that is no ToolPayload
      StdinInput(FALSE,
          ToolPayload(None, None, None, None)),
      \* {}
      StdinInput(TRUE,
          ToolPayload(None, None, None, None)),
      \* Read of a file
      StdinInput(TRUE,
          ToolPayload(Some(<<"R", "e", "a", "d">>), None, Some(Object({ <<"file_path", <<"x",
              ".", "t", "x", "t">>>> })), None)),
      \* Glob under the keys tool and input
      StdinInput(TRUE,
          ToolPayload(None, Some(<<"G", "l", "o", "b">>), None, Some(Object({ <<"pattern", <<"*",
              ".", "r", "s">>>> })))),
      StdinInput(TRUE,
          ToolPayload(Some(<<"B", "a", "s", "h">>), None, Some(Object({ <<"command", <<"l",
              "s">>>> })), None)),
      StdinInput(TRUE,
          ToolPayload(Some(<<"B", "a", "s", "h">>), None, Some(Object({ <<"command", <<"r", "m",
              " ", "-", "r", "f", " ", "/">>>> })), None)),
      \* a safe pattern and a dangerous pattern both match
      StdinInput(TRUE,
          ToolPayload(Some(<<"B", "a", "s", "h">>), None, Some(Object({ <<"command", <<"e", "c",
              "h", "o", " ", "x", " ", ">", " ", "/", "e", "t", "c", "/", "p", "a", "s", "s",
              "w", "d">>>> })), None)),
      \* no pattern matches
      StdinInput(TRUE,
          ToolPayload(Some(<<"B", "a", "s", "h">>), None, Some(Object({ <<"command", <<"m", "a",
              "k", "e">>>> })), None)),
      StdinInput(TRUE,
          ToolPayload(Some(<<"W", "r", "i", "t", "e">>), None, Some(Object({ <<"file_path",
              <<"/", "e", "t", "c", "/", "h", "o", "s", "t", "s">>>> })), None)),
      StdinInput(TRUE,
          ToolPayload(Some(<<"W", "r", "i", "t", "e">>), None, Some(Object({ <<"file_path",
              <<"a", ".", "t", "x", "t">>>> })), None)),
      \* a read-only verb and a destructive verb
      StdinInput(TRUE,
          ToolPayload(Some(<<"m", "c", "p", "_", "_", "d", "b", "_", "_", "g", "e", "t", "_",
              "a", "n", "d", "_", "d", "e", "l", "e", "t", "e">>), None, Some(EmptyObject), None)),
      StdinInput(TRUE,
          ToolPayload(Some(<<"m", "c", "p", "_", "_", "d", "b", "_", "_", "d", "e", "l", "e",
              "t", "e", "_", "r", "o", "w">>), None, Some(EmptyObject), None)),
      StdinInput(TRUE,
          ToolPayload(Some(<<"B", "a", "s", "h">>), None, Some(Object({ <<"command", <<"p", "y",
              "t", "h", "o", "n", " ", "-", "c", " ", "\"", "p", "r", "i", "n", "t", "(", "1",
              ")", "\"">>>> })), None)),
      StdinInput(TRUE,
          ToolPayload(Some(<<"B", "a", "s", "h">>), None, Some(Object({ <<"command", <<"p", "y",
              "t", "h", "o", "n", "3", " ", "-", "c", " ", "\"", "i", "m", "p", "o", "r", "t",
              " ", "o", "s", ";", " ", "o", "s", ".", "s", "y", "s", "t", "e", "m", "(", "'",
              "i", "d", "'", ")", "\"">>>> })), None)),
      \* a command of 105 bytes
      StdinInput(TRUE,
          ToolPayload(Some(<<"B", "a", "s", "h">>), None, Some(Object({ <<"command", <<"e", "c",
              "h", "o", " ">> \o Repeat("a", 100)>> })), None)),
      \* a command of 102 bytes whose bytes 99 and 100 are one character
      StdinInput(TRUE,
          ToolPayload(Some(<<"B", "a", "s", "h">>), None, Some(Object({ <<"command", <<"e", "c",
              "h", "o", " ">> \o Repeat("a", 94) \o <<"é", "x">>>> })), None)),
      \* a protected path of 102 bytes whose bytes 99 and 100 are one character
      StdinInput(TRUE,
          ToolPayload(Some(<<"W", "r", "i", "t", "e">>), None, Some(Object({ <<"file_path",
              <<"/", "e", "t", "c", "/">> \o Repeat("a", 94) \o <<"é", "x">>>> })), None))
    }

\* The line the Rust runtime writes when the main thread panics.
PanicLine == <<"t", "h", "r", "e", "a", "d", " ", "'", "m", "a", "i", "n", "'", " ", "p", "a", "n", "i", "c", "k", "e", "d">>

InitMain ==
    /\ main_pc = "start"
    /\ main_config = None
    /\ stdin = None
    /\ verdict = None
    /\ exit_code = None
    /\ stdout = << >>
    /\ stderr = << >>
    /\ decisions_log = << >>
    /\ prompts_log = << >>

\* main()'s variables at rest, for the specifications of the other components
IdleMain ==
    /\ main_pc = "idle"
    /\ main_config = None
    /\ stdin = None
    /\ verdict = None
    /\ exit_code = None
    /\ stdout = << >>
    /\ stderr = << >>
    /\ decisions_log = << >>
    /\ prompts_log = << >>

\* main.rs:611-626  load the configuration, read the standard input, parse
\* it; unparsable input ends the process by returning from main
MainRead ==
    /\ main_pc = "start"
    /\ \E file \in ConfigFiles, input \in StdinInputs :
        /\ main_config' = Some(load_config(file))
        /\ stdin' = Some(input)
        /\ main_pc' = IF input.json THEN "decide" ELSE "exited"
        /\ exit_code' = IF input.json THEN None ELSE Some(0)
    /\ UNCHANGED <<verdict, stdout, stderr, decisions_log, prompts_log>>
    /\ UNCHANGED other_than_main

\* main.rs:628-683  the tiers, the decision log and the exit.  A panic in
\* log_decision ends the process with status 101 before anything else is
\* written.
MainDecide ==
    /\ main_pc = "decide"
    /\ \E reply \in LlmReplies, writable \in BOOLEAN :
        LET config == unwrap(main_config)
            tool_name == payload_tool_name(unwrap(stdin).payload)
            tool_input == payload_tool_input(unwrap(stdin).payload)
            details == extract_details(tool_input)
            v == main_tiers(config, tool_name, tool_input, details, reply)
            logged == log_decision(config, tool_name, v.decision, v.reason, details, writable)
        IN  /\ verdict' = Some([decision |-> v.decision, reason |-> v.reason,
                                asked_llm |-> v.asked_llm,
                                reply |-> IF v.asked_llm THEN reply ELSE None])
            /\ IF logged.panic
               THEN /\ exit_code' = Some(101)
                    /\ stderr' = Append(stderr, PanicLine)
                    /\ UNCHANGED <<decisions_log, prompts_log>>
               ELSE /\ exit_code' = Some(v.exit)
                    /\ stderr' = stderr \o v.err
                    /\ decisions_log' = decisions_log \o logged.entries
                    /\ prompts_log' = IF v.decision = "prompt"
                                      THEN log_prompt(prompts_log, tool_name, details)
                                      ELSE prompts_log
    /\ main_pc' = "exited"
    /\ UNCHANGED <<main_config, stdin, stdout>>
    /\ UNCHANGED other_than_main

NextMain ==
    \/ MainRead
    \/ MainDecide

\* ------------------------------------------------------------------------
\* Command segments and the permission checks of src/src/permission.rs
\* ------------------------------------------------------------------------

Digits == { "0", "1", "2", "3", "4", "5", "6", "7", "8", "9" }

\* permission.rs:182  \s*\d*>&\d*
redirect2_re == Cat(<<Star(Space), Star(Lit(Digits)), Word(<<">", "&">>), Star(Lit(Digits))>>)

\* permission.rs:189  \s*\d*>>?\s*\S+
redirect_re ==
    Cat(<<Star(Space), Star(Lit(Digits)), Lit({ ">" }), Opt(Lit({ ">" })), Star(Space),
          Plus(NotIn(WhiteSpace))>>)

\* Regex::replace_all(s, ""): the matches are taken from the left without
\* overlap, each as far as its greedy repetitions reach, and removed.
RECURSIVE replace_all_from(_, _, _)
replace_all_from(re, s, from) ==
    LET starts == { p \in from..Len(s) : re_ends(re, s, { p }) \ { p } # {} }
    IN  IF starts = {} THEN SubSeq(s, from, Len(s))
        ELSE LET p == CHOOSE x \in starts : \A y \in starts : x <= y
             IN  SubSeq(s, from, p - 1) \o replace_all_from(re, s, max_of(re_ends(re, s, { p })))
replace_all(re, s) == replace_all_from(re, s, 1)

\* permission.rs:175-203.  The pattern of permission.rs:196 has a look-ahead,
\* which Regex::new of the regex crate rejects: its Err leaves the segment as
\* it is, so no input redirection is stripped.
strip_redirections(segment) ==
    trim(replace_all(redirect_re, replace_all(redirect2_re, trim(segment))))

\* permission.rs:128-132, 138-142, 149-153, 162-165
push_segment(segments, current) ==
    LET trimmed == strip_redirections(trim(current))
    IN  IF trimmed = << >> THEN segments ELSE Append(segments, trimmed)

\* permission.rs:105-159: the scan from character i on
RECURSIVE scan_segments(_, _, _, _, _, _)
scan_segments(command, i, current, in_single_quote, in_double_quote, segments) ==
    IF i > Len(command) THEN push_segment(segments, current)
    ELSE
    LET c == command[i]
        outside == ~in_single_quote /\ ~in_double_quote
        next_is(x) == i + 1 <= Len(command) /\ command[i + 1] = x
    IN  CASE c = "'" /\ ~in_double_quote ->
                scan_segments(command, i + 1, Append(current, c), ~in_single_quote,
                              in_double_quote, segments)
          [] c = "\"" /\ ~in_single_quote ->
                scan_segments(command, i + 1, Append(current, c), in_single_quote,
                              ~in_double_quote, segments)
          [] c = "\\" /\ ~outside ->
                IF i + 1 <= Len(command)
                THEN scan_segments(command, i + 2, current \o <<c, command[i + 1]>>,
                                   in_single_quote, in_double_quote, segments)
                ELSE scan_segments(command, i + 1, Append(current, c), in_single_quote,
                                   in_double_quote, segments)
          [] c = "|" /\ outside ->
                scan_segments(command, IF next_is("|") THEN i + 2 ELSE i + 1, << >>,
                              in_single_quote, in_double_quote, push_segment(segments, current))
          [] c = "&" /\ outside ->
                IF next_is("&")
                THEN scan_segments(command, i + 2, << >>, in_single_quote, in_double_quote,
                                   push_segment(segments, current))
                ELSE scan_segments(command, i + 1, Append(current, c), in_single_quote,
                                   in_double_quote, segments)
          [] c = ";" /\ outside ->
                scan_segments(command, i + 1, << >>, in_single_quote, in_double_quote,
                              push_segment(segments, current))
          [] OTHER ->
                scan_segments(command, i + 1, Append(current, c), in_single_quote,
                              in_double_quote, segments)

\* A split that takes no notice of quotes: every |, ||, && and ; is a boundary.
split_ignoring_quotes(command) ==
    LET RECURSIVE scan(_, _, _)
        scan(i, current, segments) ==
            LET next_is(x) == i + 1 <= Len(command) /\ command[i + 1] = x IN
            IF i > Len(command) THEN push_segment(segments, current)
            ELSE IF command[i] \in { "|", ";" }
            THEN scan(IF command[i] = "|" /\ next_is("|") THEN i + 2 ELSE i + 1, << >>,
                      push_segment(segments, current))
            ELSE IF command[i] = "&" /\ next_is("&")
            THEN scan(i + 2, << >>, push_segment(segments, current))
            ELSE scan(i + 1, Append(current, command[i]), segments)
        segments == scan(1, << >>, << >>)
    IN  IF segments = << >> THEN <<command>> ELSE segments

\* permission.rs:97-172
split_command_segments(command) ==
    LET segments == scan_segments(command, 1, << >>, FALSE, FALSE, << >>)
    IN  IF segments = << >> THEN <<command>> ELSE segments

\* str::trim_start
trim_start(s) ==
    LET solid == { i \in 1..Len(s) : s[i] \notin WhiteSpace }
    IN  IF solid = {} THEN << >>
        ELSE SubSeq(s, CHOOSE i \in solid : \A j \in solid : i <= j, Len(s))

\* str::ends_with
ends_with(s, suffix) ==
    Len(suffix) <= Len(s) /\ SubSeq(s, Len(s) - Len(suffix) + 1, Len(s)) = suffix

\* permission.rs:247-260
extract_program_name(path) ==
    LET seps == { i \in 1..Len(path) : path[i] \in { "\\", "/" } }
        name == IF seps = {} THEN path ELSE SubSeq(path, max_of(seps) + 1, Len(path))
    IN  IF ends_with(to_lowercase(name), <<".", "e", "x", "e">>) THEN SubSeq(name, 1, Len(name) - 4)
        ELSE name

\* format!("{} {}", program, rest), or the program alone (permission.rs:220-224, 236-240)
program_and_rest(program, rest) ==
    IF rest = << >> THEN program ELSE program \o <<" ">> \o rest

\* permission.rs:208-244
normalize_program_path(segment0) ==
    LET segment == trim(segment0)
        end_quote == find(SubSeq(segment, 2, Len(segment)), <<"\"">>)
        first_space == IF find(segment, <<" ">>) = 0 THEN Len(segment) + 1
                       ELSE find(segment, <<" ">>)
        first_part == SubSeq(segment, 1, first_space - 1)
    IN  IF starts_with(segment, <<"\"">>) /\ end_quote # 0
        THEN program_and_rest(extract_program_name(SubSeq(segment, 2, end_quote)),
                              trim_start(SubSeq(segment, end_quote + 2, Len(segment))))
        ELSE IF contains(first_part, <<"\\">>) \/ contains(first_part, <<"/">>)
        THEN program_and_rest(extract_program_name(first_part),
                              trim_start(SubSeq(segment, first_space, Len(segment))))
        ELSE segment

\* permission.rs:263-275
segment_matches_patterns(segment, patterns) ==
    is_some(first_match(patterns, normalize_program_path(segment)))

\* \w of the regex crate, on the characters the inputs are written in
WordChars ==
    { UpperLetters[i] : i \in 1..26 } \cup { LowerLetters[i] : i \in 1..26 } \cup Digits \cup { "_" }

\* permission.rs:290  (?s)^(python3?|node)\s*<<\s*['"]?  (up to the delimiter)
heredoc_start ==
    Cat(<<Bol, Alt(<<Cat(<<Word(<<"p", "y", "t", "h", "o", "n">>), Opt(Lit({ "3" }))>>), Word(<<"n", "o", "d", "e">>)>>),
          Star(Space), Word(<<"<", "<">>), Star(Space), Opt(Lit(Quotes))>>)

\* permission.rs:290  ['"]?\s*\n  (after the delimiter; \s* gives back the last
\* line feed it ran over)
heredoc_start_tail == Cat(<<Opt(Lit(Quotes)), Star(Space), Lit({ "\n" })>>)

\* permission.rs:288-315
parse_heredoc(command) ==
    LET opens == { p \in re_ends(heredoc_start, command, { 1 }) :
                     p <= Len(command) /\ command[p] \in WordChars }
        p == max_of(opens)
        delimiter_end == max_of(re_star(Lit(WordChars), command, { p }))
        delimiter == SubSeq(command, p, delimiter_end - 1)
        rest_starts == re_ends(heredoc_start_tail, command, { delimiter_end })
        rest == SubSeq(command, max_of(rest_starts), Len(command))
        \* (?m)^DELIMITER\s*$
        closes_line(j) ==
            \E k \in j..(Len(rest) + 1) :
                /\ \A x \in j..(k - 1) : rest[x] \in WhiteSpace
                /\ (k = Len(rest) + 1 \/ rest[k] = "\n")
        ends == { i \in 1..Len(rest) :
                    /\ (i = 1 \/ rest[i - 1] = "\n")
                    /\ starts_with(SubSeq(rest, i, Len(rest)), delimiter)
                    /\ closes_line(i + Len(delimiter)) }
        end_match == CHOOSE i \in ends : \A j \in ends : i <= j
    IN  IF opens = {} THEN None
        ELSE IF rest_starts = {} THEN None
        ELSE IF ends = {} THEN None
        ELSE Some(InlineScript(IF starts_with(command, <<"n", "o", "d", "e">>) THEN "node" ELSE "python",
                               trim(SubSeq(rest, 1, end_match - 1))))

\* permission.rs:380, 389  (?si)^cmd(?:\.exe)?\s+/c\s+
cmd_prefix ==
    Cat(<<Bol, WordI(<<"c", "m", "d">>), Opt(WordI(<<".", "e", "x", "e">>)), Plus(Space), WordI(<<"/", "c">>), Plus(Space)>>)

\* captures of (?s)PREFIX["'](.*)["'] (permission.rs:326, 344, 362, 380): group
\* 1 runs from the quote after the prefix to the last quote of the text
captures_quoted_s(prefix, s) ==
    LET closes(p) == { q \in (p + 1)..Len(s) : s[q] \in Quotes }
        opens == { p \in re_ends(prefix, s, { 1 }) :
                     p <= Len(s) /\ s[p] \in Quotes /\ closes(p) # {} }
    IN  IF opens = {} THEN None
        ELSE LET p == max_of(opens)
             IN  Some(SubSeq(s, p + 1, max_of(closes(p)) - 1))

\* captures of (?s)PREFIX["']?(.*) (permission.rs:335, 353, 371, 389): group 1
\* is what follows the white space and one quote, if there is one
captures_rest_s(prefix, s) ==
    LET ends == re_ends(prefix, s, { 1 })
        p == max_of(ends)
    IN  IF ends = {} THEN None
        ELSE IF p <= Len(s) /\ s[p] \in Quotes THEN Some(SubSeq(s, p + 1, Len(s)))
        ELSE Some(SubSeq(s, p, Len(s)))

\* the two patterns tried for one interpreter, the quoted one first
captures_inline(prefix, s) ==
    IF is_some(captures_quoted_s(prefix, s)) THEN captures_quoted_s(prefix, s)
    ELSE captures_rest_s(prefix, s)

\* permission.rs:317-398
permission_parse_inline_script(command) ==
    IF is_some(parse_heredoc(command)) THEN parse_heredoc(command)
    ELSE IF is_some(captures_inline(python_prefix, command))
        THEN Some(InlineScript("python", unwrap(captures_inline(python_prefix, command))))
    ELSE IF is_some(captures_inline(node_prefix, command))
        THEN Some(InlineScript("node", unwrap(captures_inline(node_prefix, command))))
    ELSE IF is_some(captures_inline(powershell_prefix, command))
        THEN Some(InlineScript("powershell", unwrap(captures_inline(powershell_prefix, command))))
    ELSE IF is_some(captures_inline(cmd_prefix, command))
        THEN Some(InlineScript("cmd", unwrap(captures_inline(cmd_prefix, command))))
    ELSE None

\* config.rs:165-264: the lists are those of main.rs but for the tools; the
\* dangerous_cmd_patterns that permission.rs:405 reads is no field of
\* config.rs:62-71, and is taken to be empty as a list left out of the file is.
config_default_config ==
    [ default_config EXCEPT
        !.auto_approve.tools =
            << <<"R", "e", "a", "d">>, <<"G", "l", "o", "b">>, <<"G", "r", "e", "p">>, <<"W", "e", "b", "F", "e", "t", "c", "h">>, <<"W", "e", "b", "S", "e", "a", "r", "c", "h">>, <<"T", "a", "s", "k">>,
               <<"T", "a", "s", "k", "L", "i", "s", "t">>, <<"T", "a", "s", "k", "G", "e", "t">>, <<"T", "a", "s", "k", "C", "r", "e", "a", "t", "e">>, <<"T", "a", "s", "k", "U", "p", "d", "a", "t", "e">> >> ]
dangerous_cmd_patterns == << >>

\* permission.rs:400-418
permission_is_inline_script_safe(config, script) ==
    LET patterns ==
            CASE script.script_type = "python" -> config.inline_scripts.dangerous_python_patterns
              [] script.script_type = "node" -> config.inline_scripts.dangerous_node_patterns
              [] script.script_type = "powershell" ->
                    config.inline_scripts.dangerous_powershell_patterns
              [] script.script_type = "cmd" -> dangerous_cmd_patterns
    IN  IF is_some(first_match(patterns, script.content))
        THEN [safe |-> FALSE, reason |-> <<"dangerous", script.script_type>>]
        ELSE [safe |-> TRUE, reason |-> <<"safe", script.script_type>>]

\* permission.rs:445  cd is always safe, skip it
is_cd_only(segment) ==
    segment = << >> \/ segment = <<"c", "d">> \/ starts_with(segment, <<"c", "d", " ">>)

\* permission.rs:443-476: the loop from segment i on; reason is approval_reason
RECURSIVE approve_segments(_, _, _, _)
approve_segments(config, segments, i, reason) ==
    LET by_script(script) ==
            /\ config.inline_scripts.enabled
            /\ is_some(script)
            /\ permission_is_inline_script_safe(config, unwrap(script)).safe
        check(segment, by_pattern, script) ==
            IF is_cd_only(segment) THEN approve_segments(config, segments, i + 1, reason)
            ELSE IF ~by_pattern /\ by_script(script)
            THEN approve_segments(config, segments, i + 1,
                                  permission_is_inline_script_safe(config, unwrap(script)).reason)
            ELSE IF by_pattern
            THEN approve_segments(config, segments, i + 1,
                                  IF reason = << >> THEN <<"safe pattern">> ELSE reason)
            ELSE [all_approved |-> FALSE, approval_reason |-> reason]
        check_segment(segment) ==
            check(segment,
                  segment_matches_patterns(segment, config.auto_approve.bash_patterns),
                  permission_parse_inline_script(normalize_program_path(segment)))
    IN  IF i > Len(segments) THEN [all_approved |-> TRUE, approval_reason |-> reason]
        ELSE check_segment(trim(segments[i]))

\* permission.rs:425-497
permission_is_auto_approved(config, tool_name, input) ==
    LET tools == config.auto_approve.tools
        \* permission.rs:478  all_approved && !approval_reason.is_empty()
        approval_of(loop) ==
            IF loop.all_approved /\ loop.approval_reason # << >>
            THEN Some(loop.approval_reason) ELSE None
        tiers(bash_approval, mcp_tool_name) ==
            IF \E i \in 1..Len(tools) : tools[i] = tool_name
            THEN Some(<<"auto-approve tool">>)
            ELSE IF /\ tool_name = <<"B", "a", "s", "h">> /\ is_some(get_str(input, "command"))
                    /\ is_some(bash_approval)
            THEN bash_approval
            ELSE IF /\ starts_with(tool_name, McpPrefix)
                    /\ \E i \in 1..Len(McpSafePatterns) :
                          contains(mcp_tool_name, McpSafePatterns[i])
            THEN Some(<<"read-only MCP">>)
            ELSE None
    IN  tiers(approval_of(approve_segments(
                  config,
                  split_command_segments(trim(unwrap(get_str(input, "command")))),
                  1, << >>)),
              mcp_tool_name_of(tool_name))

\* permission.rs:500-546
permission_is_auto_denied(config, tool_name, input) ==
    LET segments == split_command_segments(unwrap(get_str(input, "command")))
        file_path ==
            IF is_some(get_str(input, "file_path")) THEN unwrap(get_str(input, "file_path"))
            ELSE IF is_some(get_str(input, "path")) THEN unwrap(get_str(input, "path"))
            ELSE IF is_some(get_str(input, "notebook_path"))
                 THEN unwrap(get_str(input, "notebook_path"))
            ELSE << >>
        mcp_tool_name == mcp_tool_name_of(tool_name)
    IN  IF /\ tool_name = <<"B", "a", "s", "h">> /\ is_some(get_str(input, "command"))
           /\ \E i \in 1..Len(segments) :
                 segment_matches_patterns(segments[i], config.auto_deny.bash_patterns)
        THEN Some(<<"dangerous pattern">>)
        ELSE IF /\ tool_name \in FileTools
                /\ is_some(first_match(config.auto_deny.protected_paths, file_path))
        THEN Some(<<"protected path">>)
        ELSE IF /\ starts_with(tool_name, McpPrefix)
                /\ \E i \in 1..Len(McpDangerousPatterns) :
                      contains(mcp_tool_name, McpDangerousPatterns[i])
        THEN Some(<<"destructive MCP">>)
        ELSE None

\* ---- the calls of the permission checks ----

\* A call's arguments: the tool name and the tool input.
ToolCall(tool_name, input) == [tool_name |-> tool_name, input |-> input]
BashCall(command) == ToolCall(<<"B", "a", "s", "h">>, Object({ <<"command", command>> }))

\* Commands of two simple commands around one control operator.
SimpleCommands == { <<"l", "s">>, <<"m", "a", "k", "e">>, <<"c", "d", " ", "/", "t", "m", "p">>, <<"r", "m", " ", "-", "r", "f", " ", "/">>, <<"e", "c", "h", "o", " ", "x">> }
ControlOperators == { <<" ", "|", " ">>, <<" ", "|", "|", " ">>, <<" ", "&", "&", " ">>, <<";", " ">>, <<" ", "&", " ">> }
JoinedCommands ==
    { a \o op \o b : a \in SimpleCommands, op \in ControlOperators, b \in SimpleCommands }

\* Commands with a quoted text: echo, the text between two quote characters
\* of one kind, and a second command after a semicolon.
PayloadChars == { "a", "|", "&", ";", "'", "\"", "\\", ">" }
Payloads ==
    { <<c>> : c \in PayloadChars } \cup { <<c, d>> : c \in PayloadChars, d \in PayloadChars }
QuotedCommands ==
    { <<"e", "c", "h", "o", " ">> \o <<q>> \o text \o <<q>> \o <<";", "l", "s">> : q \in Quotes, text \in Payloads }

\* Commands of the tests of permission.rs and main.rs, and around them.
OtherCommands ==
    { << >>, <<";">>, <<"c", "d">>, <<"c", "d", " ", "/", "a", " ", "&", "&", " ", "c", "d", " ", "/", "b">>,
      <<"c", "d", " ", "/", "p", "a", "t", "h", " ", "&", "&", " ", "p", "y", "t", "h", "o", "n", " ", "<", "<", " ", "'", "E", "O", "F", "'", "\n", "i", "m", "p", "o", "r", "t", " ", "p", "a", "n", "d", "a", "s", "\n", "p", "r", "i", "n", "t", "(", "'", "h", "i", "'", ")", "\n", "E", "O", "F">>,
      <<"p", "y", "t", "h", "o", "n", "3", " ", "<", "<", " ", "E", "O", "F", "\n", "i", "m", "p", "o", "r", "t", " ", "o", "s", "\n", "o", "s", ".", "s", "y", "s", "t", "e", "m", "(", "'", "x", "'", ")", "\n", "E", "O", "F">>,
      <<"p", "y", "t", "h", "o", "n", "3", " ", "-", "c", " ", "\"", "p", "r", "i", "n", "t", "(", "1", ")", "\"">>, <<"p", "y", "t", "h", "o", "n", " ", "-", "c", " ", "\"", "i", "m", "p", "o", "r", "t", " ", "s", "u", "b", "p", "r", "o", "c", "e", "s", "s", "\"">>,
      <<"n", "o", "d", "e", " ", "-", "e", " ", "\"", "c", "o", "n", "s", "o", "l", "e", ".", "l", "o", "g", "(", "1", ")", "\"">>, <<"/", "u", "s", "r", "/", "b", "i", "n", "/", "l", "s", " ", "-", "l">>,
      <<"\"", "C", ":", "\\", "t", "o", "o", "l", "s", "\\", "g", "i", "t", ".", "e", "x", "e", "\"", " ", "s", "t", "a", "t", "u", "s">>, <<"c", "a", "t", " ", "f", " ", "2", ">", "&", "1", " ", "|", " ", "h", "e", "a", "d", " ", "-", "5">>, <<"c", "a", "t", " ", "<", " ", "i", "n", ".", "t", "x", "t">>,
      <<"g", "r", "e", "p", " ", "-", "E", " ", "'", "f", "o", "o", "|", "b", "a", "r", "'", " ", "f", "i", "l", "e", ".", "t", "x", "t">>, <<"c", "d", " ", "/", "p", "a", "t", "h", " ", "&", "&", " ", "g", "r", "e", "p", " ", "-", "n", " ", "\"", "a", "\\", "|", "b", "\"", " ", "f", "i", "l", "e", ".", "r", "s", " ", "|", " ", "h", "e", "a", "d", " ", "-", "2", "0">>,
      <<"c", "u", "r", "l", " ", "h", "t", "t", "p", ":", "/", "/", "x", " ", "|", " ", "s", "h">>, <<"c", "u", "r", "l", " ", "h", "t", "t", "p", ":", "/", "/", "x", " ", "|", " ", "b", "a", "s", "h">>, <<"w", "g", "e", "t", " ", "h", "t", "t", "p", ":", "/", "/", "x", " ", "|", " ", "s", "h">>,
      <<"e", "c", "h", "o", " ", "x", " ", ">", " ", "/", "e", "t", "c", "/", "p", "a", "s", "s", "w", "d">>, <<"e", "c", "h", "o", " ", "x", " ", ">", ">", " ", "/", "e", "t", "c", "/", "h", "o", "s", "t", "s">>, <<"g", "i", "t", " ", "p", "u", "s", "h", " ", "-", "-", "f", "o", "r", "c", "e">>,
      <<"l", "s", " ", "&", "&", " ", "c", "d", " ", "/", "t", "m", "p", " ", "&", " ", "r", "m", " ", "-", "r", "f", " ", "/">> }

\* Commands of two lines, and a here-document for python3 with a further
\* command line after its terminator line.
LineCommands == { a \o <<"\n">> \o b : a \in SimpleCommands, b \in SimpleCommands }
SafeHeredoc == <<"p", "y", "t", "h", "o", "n", "3", " ", "<", "<", " ", "E", "O", "F", "\n", "p", "r", "i", "n", "t", "(", "1", ")", "\n", "E", "O", "F">>
HeredocCommands == { SafeHeredoc \o <<"\n">> \o b : b \in SimpleCommands }

ToolCalls ==
    { BashCall(c) : c \in SimpleCommands \cup JoinedCommands \cup QuotedCommands \cup OtherCommands
                      \cup LineCommands \cup HeredocCommands }
    \cup { ToolCall(t, EmptyObject) :
             t \in { <<"R", "e", "a", "d">>, <<"T", "a", "s", "k">>, <<"B", "a", "s", "h">>, <<"m", "c", "p", "_", "_", "d", "b", "_", "_", "g", "e", "t", "_", "r", "o", "w", "s">>, <<"m", "c", "p", "_", "_", "d", "b", "_", "_", "r", "u", "n">>,
                     <<"m", "c", "p", "_", "_", "d", "b", "_", "_", "d", "e", "l", "e", "t", "e", "_", "r", "o", "w">>, <<"m", "c", "p", "_", "_", "d", "b", "_", "_", "g", "e", "t", "_", "a", "n", "d", "_", "d", "e", "l", "e", "t", "e">>,
                     <<"m", "c", "p", "_", "_", "d", "b", "_", "_", "r", "e", "s", "e", "t", "_", "s", "t", "a", "t", "u", "s">>, <<"m", "c", "p", "_", "_", "f", "s", "_", "_", "R", "e", "m", "o", "v", "e", "_", "F", "i", "l", "e">> } }
    \cup { ToolCall(<<"W", "r", "i", "t", "e">>, Object({ <<"file_path", p>> })) : p \in { <<"/", "e", "t", "c", "/", "h", "o", "s", "t", "s">>, <<"a", ".", "t", "x", "t">> } }

NoCheck == [op |-> "none", ret |-> None]

InitPermission ==
    /\ pm_input \in ToolCalls
    /\ pm_call = NoCheck

IdlePermission ==
    /\ pm_input = ToolCall(<< >>, EmptyObject)
    /\ pm_call = NoCheck

IsBashCall == pm_input.tool_name = <<"B", "a", "s", "h">> /\ is_some(get_str(pm_input.input, "command"))
BashCommand == unwrap(get_str(pm_input.input, "command"))

\* split_command_segments(command), as is_auto_denied calls it
SplitCommandSegments ==
    /\ pm_call = NoCheck
    /\ IsBashCall
    /\ pm_call' = [op |-> "split_command_segments", ret |-> split_command_segments(BashCommand)]
    /\ UNCHANGED pm_input
    /\ UNCHANGED other_than_pm

\* permission::is_auto_approved(&config, tool_name, &input)
IsAutoApproved ==
    /\ pm_call = NoCheck
    /\ pm_call' = [op |-> "is_auto_approved",
                   ret |-> permission_is_auto_approved(config_default_config,
                                                       pm_input.tool_name, pm_input.input)]
    /\ UNCHANGED pm_input
    /\ UNCHANGED other_than_pm

\* permission::is_auto_denied(&config, tool_name, &input)
IsAutoDenied ==
    /\ pm_call = NoCheck
    /\ pm_call' = [op |-> "is_auto_denied",
                   ret |-> permission_is_auto_denied(config_default_config,
                                                     pm_input.tool_name, pm_input.input)]
    /\ UNCHANGED pm_input
    /\ UNCHANGED other_than_pm

NextPermission == SplitCommandSegments \/ IsAutoApproved \/ IsAutoDenied

\* ------------------------------------------------------------------------
\* The coordination files of a session, calls made one after another
\* (src/src/state.rs, src/src/dedup.rs)
\* ------------------------------------------------------------------------
MaxSessionClock == 3
\* The cooldown windows the calls pass, in seconds.
Windows == { 0, 1, 2 }

StatePrefix == <<"c", "l", "a", "u", "d", "e", "-", "s", "e", "s", "s", "i", "o", "n", "-", "s", "t", "a", "t", "e", "-">>
JsonSuffix == <<".", "j", "s", "o", "n">>

\* Manager::get_state_path
get_state_path(session_id) == StatePrefix \o session_id \o JsonSuffix

\* Manager::delete
state_delete(sf, session_id) ==
    IF is_some(sf[session_id]) THEN [sf EXCEPT ![session_id] = None] ELSE sf

\* A should_suppress_question that takes an elapsed time equal to the cooldown
\* as within it.
should_suppress_question_le(sf, session_id, cooldown_seconds, now) ==
    IF cooldown_seconds <= 0 THEN FALSE
    ELSE IF ~is_some(load(sf, session_id)) THEN FALSE
    ELSE LET state == unwrap(load(sf, session_id)) IN
         IF state.last_task_complete_time = 0 THEN FALSE
         ELSE now - state.last_task_complete_time <= cooldown_seconds

\* Manager::should_suppress_question
should_suppress_question(sf, session_id, cooldown_seconds, now) ==
    IF cooldown_seconds <= 0 THEN FALSE
    ELSE IF ~is_some(load(sf, session_id)) THEN FALSE
    ELSE LET state == unwrap(load(sf, session_id)) IN
         IF state.last_task_complete_time = 0 THEN FALSE
         ELSE LET elapsed == now - state.last_task_complete_time
              IN  elapsed < cooldown_seconds

\* Manager::should_suppress_question_after_any
should_suppress_question_after_any(sf, session_id, cooldown_seconds, now) ==
    IF cooldown_seconds <= 0 THEN FALSE
    ELSE IF ~is_some(load(sf, session_id)) THEN FALSE
    ELSE LET state == unwrap(load(sf, session_id)) IN
         IF state.last_notification_time = 0 THEN FALSE
         ELSE LET elapsed == now - state.last_notification_time
              IN  elapsed < cooldown_seconds

\* dedup::Manager::cleanup_for_session over the temp directory, which holds
\* the lease files and the state files: [fs |-> the lease files afterwards,
\* sf |-> the state files afterwards].
cleanup_for_session(fs, sf, session_id) ==
    LET swept(name) == contains(name, session_id) /\ ends_with(name, LockSuffix) IN
    [fs |-> [n \in DOMAIN fs |-> IF is_some(fs[n]) /\ swept(n) THEN None ELSE fs[n]],
     sf |-> [s \in DOMAIN sf |->
                IF is_some(sf[s]) /\ swept(get_state_path(s)) THEN None ELSE sf[s]]]

NoSessionCall == [op |-> "none", session |-> << >>, window |-> 0, ret |-> FALSE]

InitSession ==
    /\ clock = 1
    /\ files = NoFiles
    /\ state_file = NoStateFiles
    /\ ss_call = NoSessionCall

IdleSession == ss_call = NoSessionCall

\* state.rs:103-113
UpdateTaskComplete(s) ==
    /\ state_file' = save(state_file,
                          apply_update("update_task_complete", load_or_default(state_file, s), clock))
    /\ ss_call' = [op |-> "update_task_complete", session |-> s, window |-> 0, ret |-> TRUE]
    /\ UNCHANGED <<files, clock>>
    /\ UNCHANGED other_than_ss

\* state.rs:115-127
UpdateLastNotification(s) ==
    /\ state_file' = save(state_file,
                          apply_update("update_last_notification", load_or_default(state_file, s), clock))
    /\ ss_call' = [op |-> "update_last_notification", session |-> s, window |-> 0, ret |-> TRUE]
    /\ UNCHANGED <<files, clock>>
    /\ UNCHANGED other_than_ss

\* state.rs:129-145
ShouldSuppressQuestion(s, w) ==
    /\ ss_call' = [op |-> "should_suppress_question", session |-> s, window |-> w,
                   ret |-> should_suppress_question(state_file, s, w, clock)]
    /\ UNCHANGED <<files, state_file, clock>>
    /\ UNCHANGED other_than_ss

\* state.rs:147-163
ShouldSuppressQuestionAfterAny(s, w) ==
    /\ ss_call' = [op |-> "should_suppress_question_after_any", session |-> s, window |-> w,
                   ret |-> should_suppress_question_after_any(state_file, s, w, clock)]
    /\ UNCHANGED <<files, state_file, clock>>
    /\ UNCHANGED other_than_ss

\* dedup.rs acquire_lock, called by the one running invocation
SessionAcquireLock(s, e) ==
    LET r == acquire_lock(files, s, e, clock) IN
    /\ files' = r.fs
    /\ ss_call' = [op |-> "acquire_lock", session |-> s, window |-> 0, ret |-> r.ret]
    /\ UNCHANGED <<state_file, clock>>
    /\ UNCHANGED other_than_ss

\* dedup.rs acquire_content_lock
SessionAcquireContentLock(s) ==
    LET r == acquire_content_lock(files, s, clock) IN
    /\ files' = r.fs
    /\ ss_call' = [op |-> "acquire_content_lock", session |-> s, window |-> 0, ret |-> r.ret]
    /\ UNCHANGED <<state_file, clock>>
    /\ UNCHANGED other_than_ss

\* dedup.rs:171-186
CleanupForSession(s) ==
    LET r == cleanup_for_session(files, state_file, s) IN
    /\ files' = r.fs
    /\ state_file' = r.sf
    /\ ss_call' = [op |-> "cleanup_for_session", session |-> s, window |-> 0, ret |-> TRUE]
    /\ UNCHANGED clock
    /\ UNCHANGED other_than_ss

\* state.rs:76-86
DeleteState(s) ==
    /\ state_file' = state_delete(state_file, s)
    /\ ss_call' = [op |-> "delete", session |-> s, window |-> 0, ret |-> TRUE]
    /\ UNCHANGED <<files, clock>>
    /\ UNCHANGED other_than_ss

TickSession ==
    /\ clock < MaxSessionClock
    /\ clock' = clock + 1
    /\ UNCHANGED <<files, state_file, ss_call>>
    /\ UNCHANGED other_than_ss

NextSession ==
    \/ \E s \in SessionIds : UpdateTaskComplete(s)
    \/ \E s \in SessionIds : UpdateLastNotification(s)
    \/ \E s \in SessionIds, w \in Windows : ShouldSuppressQuestion(s, w)
    \/ \E s \in SessionIds, w \in Windows : ShouldSuppressQuestionAfterAny(s, w)
    \/ \E s \in SessionIds, e \in HookEvents : SessionAcquireLock(s, e)
    \/ \E s \in SessionIds : SessionAcquireContentLock(s)
    \/ \E s \in SessionIds : CleanupForSession(s)
    \/ \E s \in SessionIds : DeleteState(s)
    \/ TickSession

\* ------------------------------------------------------------------------
\* Lease age on a clock finer than a second (src/src/platform.rs,
\* src/src/dedup.rs)
\* ------------------------------------------------------------------------
\* The real time and the modification times the file system keeps are counted
\* in ticks; current_timestamp and file_mtime cut both down to whole seconds.
TicksPerSecond == 2
MaxRealTime == 10

\* platform::current_timestamp: d.as_secs() of the time since the epoch
current_timestamp(now) == now \div TicksPerSecond

\* platform::file_mtime over every file: d.as_secs() of the modification time
mtime_secs(pf) ==
    [n \in FileNames |->
        IF is_some(pf[n]) THEN Some(unwrap(pf[n]) \div TicksPerSecond) ELSE None]

\* The real time since a lease file was written, None without the file.
RealAge(path) ==
    IF is_some(precise_files[path]) THEN Some(real_time - unwrap(precise_files[path]))
    ELSE None

NoAgeCall == [op |-> "none", ret |-> FALSE, real_age |-> None]

InitAge ==
    /\ real_time = 0
    /\ precise_files = NoFiles
    /\ age_call = NoAgeCall

IdleAge == InitAge

\* dedup.rs:36-52 on the event lease of the session
AgeCheckEarlyDuplicate ==
    /\ age_call' = [op |-> "check_early_duplicate",
                    ret |-> check_early_duplicate(mtime_secs(precise_files), LeaseSession,
                                                  LeaseEvent, current_timestamp(real_time)),
                    real_age |-> RealAge(LeasePath)]
    /\ UNCHANGED <<real_time, precise_files>>
    /\ UNCHANGED other_than_age

\* dedup.rs:56-88 on the event lease of the session; the file a successful
\* acquire writes carries the real time
AgeAcquireLock ==
    LET r == acquire_lock(mtime_secs(precise_files), LeaseSession, LeaseEvent,
                          current_timestamp(real_time)) IN
    /\ age_call' = [op |-> "acquire_lock", ret |-> r.ret, real_age |-> RealAge(LeasePath)]
    /\ precise_files' = IF r.ret THEN [precise_files EXCEPT ![LeasePath] = Some(real_time)]
                        ELSE precise_files
    /\ UNCHANGED real_time
    /\ UNCHANGED other_than_age

\* dedup.rs:103-133 on the content lease of the session
AgeAcquireContentLock ==
    LET path == get_content_lock_path(LeaseSession)
        r == acquire_content_lock(mtime_secs(precise_files), LeaseSession,
                                  current_timestamp(real_time)) IN
    /\ age_call' = [op |-> "acquire_content_lock", ret |-> r.ret, real_age |-> RealAge(path)]
    /\ precise_files' = IF r.ret THEN [precise_files EXCEPT ![path] = Some(real_time)]
                        ELSE precise_files
    /\ UNCHANGED real_time
    /\ UNCHANGED other_than_age

TickAge ==
    /\ real_time < MaxRealTime
    /\ real_time' = real_time + 1
    /\ UNCHANGED <<precise_files, age_call>>
    /\ UNCHANGED other_than_age

NextAge == AgeCheckEarlyDuplicate \/ AgeAcquireLock \/ AgeAcquireContentLock \/ TickAge

\* ------------------------------------------------------------------------
\* The backoff of the retry loop for large max_attempts (src/src/webhook.rs)
\* ------------------------------------------------------------------------
MaxBackoffAttempts == 70

InitBackoff ==
    \E build \in Builds, n \in {1, 3, MaxBackoffAttempts} :
        bo = [build |-> build, max_attempts |-> n, attempt |-> 0, delay |-> 0, total |-> 0,
              panicked |-> FALSE]

IdleBackoff ==
    bo = [build |-> "release", max_attempts |-> 1, attempt |-> 0, delay |-> 0, total |-> 0,
          panicked |-> FALSE]

\* webhook.rs:314-319: the loop goes on to its next attempt and sleeps before it
BackoffSleep ==
    /\ ~bo.panicked
    /\ bo.attempt + 1 < bo.max_attempts
    /\ LET attempt == bo.attempt + 1
           outcome == backoff_outcome(attempt, bo.build)
       IN  bo' = [bo EXCEPT !.attempt = attempt, !.delay = outcome.delay,
                             !.total = bo.total + outcome.delay,
                             !.panicked = outcome.panicked]
    /\ UNCHANGED other_than_bo

NextBackoff == BackoffSleep

\* ------------------------------------------------------------------------
\* analyze_transcript on whole transcripts (src/src/analyzer.rs,
\* src/src/jsonl.rs)
\* ------------------------------------------------------------------------
MaxTurns == 4
MaxLongTurns == 17

\* An assistant turn that edits a file and says so.
PlainTurn == Message("assistant", "assistant", << ToolUse("Write"), TextBlock(100, {}) >>)
\* An assistant turn that reports the 401 error without the login hint.
ApiNoLoginTurn == Message("assistant", "assistant", << TextBlock(14, {"api error: 401"}) >>)
\* An assistant turn that asks the user a question.
QuestionTurn == Message("assistant", "assistant", << ToolUse("AskUserQuestion") >>)

\* Short transcripts: nothing, a user turn, or an earlier limit report and a
\* user turn, followed by up to MaxTurns assistant turns.
ShortTranscripts ==
    { head \o body :
        head \in { << >>, << UserTurn >>, << LimitTurn, UserTurn >> },
        body \in UNION { [1..n -> { PlainTurn, LimitTurn, ApiErrorTurn, ApiNoLoginTurn }] :
                           n \in 0..MaxTurns } }

\* Long transcripts: a user turn followed by RecentWindow - 1 to MaxLongTurns
\* plain assistant turns, one of which is replaced by a limit report, a 401
\* report or a question.
LongTranscripts ==
    { << UserTurn >> \o [i \in 1..n |-> IF i = at THEN turn ELSE PlainTurn] :
        n \in (RecentWindow - 1)..MaxLongTurns, at \in 1..MaxLongTurns,
        turn \in { LimitTurn, ApiErrorTurn, QuestionTurn } }

InitWindow ==
    /\ messages \in ShortTranscripts \cup LongTranscripts
    /\ an_config \in BOOLEAN
    /\ an_call = None

NextWindow == AnalyzeTranscript

\* ------------------------------------------------------------------------
\* cleanup_for_session in a temp directory shared by several sessions
\* (src/src/dedup.rs)
\* ------------------------------------------------------------------------
\* Three sessions, the identifier of the first a part of the second's.
SharingSessionIds == { <<"a", "1">>, <<"a", "1", "2">>, <<"b", "2">> }
SharedFileNames ==
    { get_lock_path(s, e) : s \in SharingSessionIds, e \in HookEvents }
        \cup { get_content_lock_path(s) : s \in SharingSessionIds }
NoSharedFiles == [n \in SharedFileNames |-> None]
\* No session-state file is kept in the shared directory.
NoSharedStateFiles == [s \in {} |-> None]
NoSweepCall == [op |-> "none", session |-> << >>, before |-> NoSharedFiles]

InitSweep ==
    /\ temp_dir = NoSharedFiles
    /\ sweep_call = NoSweepCall

IdleSweep == InitSweep

\* dedup.rs:56-88
SweepAcquireLock(s, e) ==
    /\ temp_dir' = acquire_lock(temp_dir, s, e, clock).fs
    /\ sweep_call' = [op |-> "acquire_lock", session |-> s, before |-> temp_dir]
    /\ UNCHANGED other_than_sweep

\* dedup.rs:103-133
SweepAcquireContentLock(s) ==
    /\ temp_dir' = acquire_content_lock(temp_dir, s, clock).fs
    /\ sweep_call' = [op |-> "acquire_content_lock", session |-> s, before |-> temp_dir]
    /\ UNCHANGED other_than_sweep

\* dedup.rs:171-186
SweepCleanupForSession(s) ==
    /\ temp_dir' = cleanup_for_session(temp_dir, NoSharedStateFiles, s).fs
    /\ sweep_call' = [op |-> "cleanup_for_session", session |-> s, before |-> temp_dir]
    /\ UNCHANGED other_than_sweep

NextSweep ==
    \/ \E s \in SharingSessionIds, e \in HookEvents : SweepAcquireLock(s, e)
    \/ \E s \in SharingSessionIds : SweepAcquireContentLock(s)
    \/ \E s \in SharingSessionIds : SweepCleanupForSession(s)

\* ------------------------------------------------------------------------
\* Specifications
\* ------------------------------------------------------------------------
InitSpecBreaker ==
    InitBreaker /\ IdleLimiter /\ IdleSender /\ IdleFs /\ IdleLease /\ IdleDedup /\ IdleState /\ IdleAnalyzer /\ IdleMain /\ IdlePermission /\ IdleSession /\ IdleAge /\ IdleBackoff /\ IdleSweep
SpecBreaker == InitSpecBreaker /\ [][NextBreaker]_vars

InitSpecLimiter ==
    InitLimiter /\ IdleBreaker /\ IdleSender /\ IdleFs /\ IdleLease /\ IdleDedup /\ IdleState /\ IdleAnalyzer /\ IdleMain /\ IdlePermission /\ IdleSession /\ IdleAge /\ IdleBackoff /\ IdleSweep
SpecLimiter == InitSpecLimiter /\ [][NextLimiter]_vars

InitSpecWebhook ==
    InitSender /\ IdleFs /\ IdleLease /\ IdleDedup /\ IdleState /\ IdleAnalyzer /\ IdleMain /\ IdlePermission /\ IdleSession /\ IdleAge /\ IdleBackoff /\ IdleSweep
SpecWebhook == InitSpecWebhook /\ [][NextWebhook]_vars
\* A call that has started runs on: neither the request (it has a timeout of
\* ten seconds) nor the sleep blocks for ever.
SpecWebhookLive == SpecWebhook /\ WF_vars(SendAttempt) /\ WF_vars(SendSleep)

InitSpecLease ==
    InitLease /\ IdleBreaker /\ IdleLimiter /\ IdleSender /\ IdleDedup /\ IdleState /\ IdleAnalyzer /\ IdleMain /\ IdlePermission /\ IdleSession /\ IdleAge /\ IdleBackoff /\ IdleSweep
SpecLease == InitSpecLease /\ [][NextLease]_vars

InitSpecDedup ==
    InitDedup /\ IdleBreaker /\ IdleLimiter /\ IdleSender /\ IdleLease /\ IdleState /\ IdleAnalyzer /\ IdleMain /\ IdlePermission /\ IdleSession /\ IdleAge /\ IdleBackoff /\ IdleSweep
SpecDedup == InitSpecDedup /\ [][NextDedup]_vars

InitSpecState ==
    InitState /\ IdleBreaker /\ IdleLimiter /\ IdleSender /\ IdleLease /\ IdleDedup /\ IdleAnalyzer /\ IdleMain /\ IdlePermission /\ IdleSession /\ IdleAge /\ IdleBackoff /\ IdleSweep
SpecState == InitSpecState /\ [][NextState]_vars

InitSpecAnalyzer ==
    InitAnalyzer /\ IdleBreaker /\ IdleLimiter /\ IdleSender /\ IdleFs /\ IdleLease /\ IdleDedup /\ IdleState /\ IdleMain /\ IdlePermission /\ IdleSession /\ IdleAge /\ IdleBackoff /\ IdleSweep
SpecAnalyzer == InitSpecAnalyzer /\ [][NextAnalyzer]_vars

InitSpecMain ==
    InitMain /\ IdleBreaker /\ IdleLimiter /\ IdleSender /\ IdleFs /\ IdleLease /\ IdleDedup /\ IdleState /\ IdleAnalyzer
    /\ IdlePermission /\ IdleSession /\ IdleAge /\ IdleBackoff /\ IdleSweep
SpecMain == InitSpecMain /\ [][NextMain]_vars

InitSpecSession ==
    InitSession /\ IdleBreaker /\ IdleLimiter /\ IdleSender /\ IdleLease /\ IdleDedup /\ IdleState
    /\ IdleAnalyzer /\ IdleMain /\ IdlePermission /\ IdleAge /\ IdleBackoff /\ IdleSweep
SpecSession == InitSpecSession /\ [][NextSession]_vars

InitSpecAge ==
    InitAge /\ IdleBreaker /\ IdleLimiter /\ IdleSender /\ IdleFs /\ IdleLease /\ IdleDedup
    /\ IdleState /\ IdleAnalyzer /\ IdleMain /\ IdlePermission /\ IdleSession /\ IdleBackoff /\ IdleSweep
SpecAge == InitSpecAge /\ [][NextAge]_vars

InitSpecBackoff ==
    InitBackoff /\ IdleBreaker /\ IdleLimiter /\ IdleSender /\ IdleFs /\ IdleLease /\ IdleDedup
    /\ IdleState /\ IdleAnalyzer /\ IdleMain /\ IdlePermission /\ IdleSession /\ IdleAge /\ IdleSweep
SpecBackoff == InitSpecBackoff /\ [][NextBackoff]_vars

InitSpecWindow ==
    InitWindow /\ IdleBreaker /\ IdleLimiter /\ IdleSender /\ IdleFs /\ IdleLease /\ IdleDedup
    /\ IdleState /\ IdleMain /\ IdlePermission /\ IdleSession /\ IdleAge /\ IdleBackoff /\ IdleSweep
SpecWindow == InitSpecWindow /\ [][NextWindow]_vars

InitSpecSweep ==
    InitSweep /\ IdleBreaker /\ IdleLimiter /\ IdleSender /\ IdleFs /\ IdleLease /\ IdleDedup
    /\ IdleState /\ IdleAnalyzer /\ IdleMain /\ IdlePermission /\ IdleSession /\ IdleAge /\ IdleBackoff
SpecSweep == InitSpecSweep /\ [][NextSweep]_vars

InitSpecPermission ==
    InitPermission /\ IdleBreaker /\ IdleLimiter /\ IdleSender /\ IdleFs /\ IdleLease /\ IdleDedup
    /\ IdleState /\ IdleAnalyzer /\ IdleMain /\ IdleSession /\ IdleAge /\ IdleBackoff /\ IdleSweep
SpecPermission == InitSpecPermission /\ [][NextPermission]_vars

\* ------------------------------------------------------------------------
\* Claims
\* ------------------------------------------------------------------------

\* C10: for every threshold T >= 1 the breaker is closed when constructed,
\* is closed while fewer than T record_failure calls were made since the last
\* record_success (or since construction), is open right after the T-th such
\* call, and right after record_success it is closed with a failure counter of
\* zero.
C10_OpensAtThreshold ==
    /\ cb.threshold >= 1
    /\ cb_call.op = "new" => ~cb.is_open /\ cb.failure_count = 0
    /\ cb_call.consecutive < cb.threshold => ~cb.is_open
    /\ (cb_call.op = "record_failure" /\ cb_call.consecutive = cb.threshold) => cb.is_open
    /\ cb_call.op = "record_success" => ~cb.is_open /\ cb.failure_count = 0

\* C10 witness: a breaker of threshold 3 is open right after the third
\* record_failure in a row.
C10_Witness ==
    /\ cb_call.op = "record_failure"
    /\ cb_call.consecutive = cb.threshold
    /\ cb.threshold = 3
    /\ cb.is_open
    /\ cb.failure_count = 3
Granted == { p \in Procs : ret[p] = "true" }

\* C1: for one key, no two invocations get Ok(true) from acquire_lock less
\* than 2 seconds apart, whatever the interleaving and also when the run
\* starts with a stale lease file.
C1_OneGrantPerWindow ==
    \A p, q \in Granted :
        p # q => \/ unwrap(granted_at[p]) - unwrap(granted_at[q]) >= LockFreshSecs
                 \/ unwrap(granted_at[q]) - unwrap(granted_at[p]) >= LockFreshSecs

\* C7: when the run starts without a lease file, then as long as the
\* invocations are within one freshness window of their start at most one of
\* them has got Ok(true), and once all have returned exactly one has: all the
\* others got Ok(false).
C7_AtomicCreate ==
    (lease0 = None /\ clock - LeaseStart < LockFreshSecs) =>
        /\ Cardinality(Granted) <= 1
        /\ (\A p \in Procs : pc[p] = "done") =>
              /\ Cardinality(Granted) = 1
              /\ \A p \in Procs \ Granted : ret[p] \in {"duplicate", "beaten"}

\* C7 witness: two invocations both saw that no lease file existed; one
\* created it and the other's create_new failed with AlreadyExists.
C7_Witness ==
    /\ lease0 = None
    /\ clock - LeaseStart < LockFreshSecs
    /\ \A p \in Procs : pc[p] = "done"
    /\ ret[1] = "beaten"
    /\ ret[2] = "true"

\* C5: for an event lease with no release in between, acquire_lock returns
\* true when the key has no lease yet, false while the lease is younger than
\* 2 seconds, and true again (reclaiming it) once its age has reached 2;
\* check_early_duplicate returns true exactly while the lease is younger than 2.
C5_LeaseLifecycle ==
    \A k \in EventKeys :
        dedup_call.key = k =>
            /\ dedup_call.op = "acquire_lock" =>
                  dedup_call.ret = (~is_some(dedup_call.age)
                                    \/ unwrap(dedup_call.age) >= LockFreshSecs)
            /\ dedup_call.op = "check_early_duplicate" =>
                  dedup_call.ret = (is_some(dedup_call.age)
                                    /\ unwrap(dedup_call.age) < LockFreshSecs)

\* C5 witness: an acquire_lock has just reclaimed a lease that nobody
\* released and whose age had reached the freshness threshold.
C5_Witness ==
    /\ dedup_call.op = "acquire_lock"
    /\ dedup_call.key = EventKey(LeaseSession, Some(Stop))
    /\ dedup_call.age = Some(LockFreshSecs)
    /\ dedup_call.ret

\* What a probe and an acquire of key k would answer on the directory fs.
ProbeAnswer(fs, k, now) ==
    IF k.ns = "event" THEN check_early_duplicate(fs, k.session, k.event, now)
    ELSE path_exists(fs, get_content_lock_path(k.session))
AcquireAnswer(fs, k, now) ==
    IF k.ns = "event" THEN acquire_lock(fs, k.session, k.event, now).ret
    ELSE acquire_content_lock(fs, k.session, now).ret

\* C6: a call on one lease key (acquire, release, probe, of an event lease or
\* of the content lease) leaves the answers of check_early_duplicate and of
\* acquire_lock / acquire_content_lock for every other key of the session as
\* they were.
C6_KeysIndependent ==
    [][ \A k \in LeaseKeys :
            (clock' = clock /\ dedup_call'.key # k /\ dedup_call'.key.session = k.session) =>
                /\ ProbeAnswer(files', k, clock) = ProbeAnswer(files, k, clock)
                /\ AcquireAnswer(files', k, clock) = AcquireAnswer(files, k, clock)
      ]_vars

\* C6 witness: the Notification lease was acquired while the Stop lease and
\* the content lease of the same session are held.
C6_Witness ==
    /\ dedup_call.op = "acquire_lock"
    /\ dedup_call.key = EventKey(LeaseSession, Some(Notification))
    /\ dedup_call.ret
    /\ check_early_duplicate(files, LeaseSession, Some(Stop), clock)
    /\ ~acquire_content_lock(files, LeaseSession, clock).ret

\* The fields of the stored record of StateSession that differ from a record
\* nobody has written.
WrittenFields ==
    LET stored == load_or_default(state_file, StateSession)
        blank == default_state(StateSession)
    IN { f \in DOMAIN stored : stored[f] # blank[f] }

\* C8: the load-modify-save sequences of concurrent invocations updating one
\* session never interleave, so once all of them have completed the stored
\* record holds the fields written by each of them.
C8_NoLostUpdate ==
    (\A p \in Procs : st_pc[p] = "done") =>
        \A p \in Procs : FieldsOf(st_op[p]) \subseteq WrittenFields
\* The tools and the text length of the window analyze_transcript looks at.
WindowOf == get_recent_assistant_messages(messages, RecentWindow)
WindowTools == all_tools_of(WindowOf)
WindowTextLength == total_text_length_of(WindowOf)
WindowHasErrorText ==
    \E i \in 1..Len(WindowOf) :
        \/ check_session_limit(Message_get_text(WindowOf[i]))
        \/ check_api_error(Message_get_text(WindowOf[i]))

\* The decision table of C9, written out as the claim words it.
StatusTable(tools, text_length, notify_on_text) ==
    LET n == Len(tools)
        active == { "Write", "Edit", "Bash", "NotebookEdit", "SlashCommand",
                    "KillShell", "Task", "MultiEdit" }
        read_like == { "Read", "Grep", "Glob" }
    IN  IF n = 0
        THEN IF notify_on_text /\ text_length > 0 THEN "TaskComplete" ELSE "Unknown"
        ELSE IF tools[n] = "ExitPlanMode" THEN "PlanReady"
        ELSE IF tools[n] = "AskUserQuestion" THEN "Question"
        ELSE IF \E i \in 1..n : \E j \in (i + 1)..n : tools[i] = "ExitPlanMode"
            THEN "TaskComplete"
        ELSE IF /\ \A i \in 1..n : tools[i] \notin active
                /\ \E i \in 1..n : tools[i] \in read_like
                /\ text_length > 200
            THEN "ReviewComplete"
        ELSE "TaskComplete"

\* C9: when no message of the window carries session-limit or API-error
\* text, the status analyze_transcript returns is the one the fixed-priority
\* decision table gives for the tools and the text length of the window, and
\* it is not ReviewComplete when an active tool occurs in the window.
C9_DecisionTable ==
    (is_some(an_call) /\ ~WindowHasErrorText) =>
        /\ unwrap(an_call) = StatusTable(WindowTools, WindowTextLength, an_config)
        /\ (\E i \in 1..Len(WindowTools) : WindowTools[i] \in
                { "Write", "Edit", "Bash", "NotebookEdit", "SlashCommand",
                  "KillShell", "Task", "MultiEdit" })
              => unwrap(an_call) # "ReviewComplete"

\* C9 witness: a window with a read-like tool, an active tool before it and
\* 201 bytes of text was analyzed; the answer is TaskComplete, where the same
\* window without the active tool would be ReviewComplete.
C9_Witness ==
    /\ is_some(an_call)
    /\ ~WindowHasErrorText
    /\ WindowTools = << "Write", "Read" >>
    /\ WindowTextLength = 201
    /\ unwrap(an_call) = "TaskComplete"
\* What main() decided about the payload it read, and what the tiers say
\* about that payload.
MainDecided == main_pc = "exited" /\ is_some(verdict)
MainVerdict == unwrap(verdict)
Tier1Allows ==
    is_some(is_auto_approved(unwrap(main_config),
                             payload_tool_name(unwrap(stdin).payload),
                             payload_tool_input(unwrap(stdin).payload)))
Tier2Denies ==
    is_some(is_auto_denied(unwrap(main_config),
                           payload_tool_name(unwrap(stdin).payload),
                           payload_tool_input(unwrap(stdin).payload)))
ClassifierSays(answer) ==
    /\ MainVerdict.asked_llm
    /\ is_some(MainVerdict.reply)
    /\ to_uppercase(trim(unwrap(MainVerdict.reply))) = answer
ClassifierSaysSafe == ClassifierSays(<<"S", "A", "F", "E">>)
ClassifierSaysDangerous ==
    ClassifierSays(<<"D", "A", "N", "G", "E", "R", "O", "U", "S">>)

\* C2 as worded: one verdict per parsed payload; a Tier 1 match gives Allow
\* whatever Tier 2 says; Deny only when no Tier 1 rule allowed and a Tier 2
\* rule matches; the classifier is asked only when neither tier decided; with
\* no tier deciding and no classifier configured or no conclusive answer the
\* verdict is Defer (logged as "prompt").
C2_DenyOnlyByTier2 ==
    /\ (main_pc = "exited" /\ unwrap(stdin).json) => is_some(verdict)
    /\ MainDecided =>
        /\ Tier1Allows => MainVerdict.decision = "allow"
        /\ MainVerdict.decision = "deny" => (~Tier1Allows /\ Tier2Denies)
        /\ MainVerdict.asked_llm => (~Tier1Allows /\ ~Tier2Denies)
        /\ (~Tier1Allows /\ ~Tier2Denies /\ ~ClassifierSaysSafe /\ ~ClassifierSaysDangerous)
              => MainVerdict.decision = "prompt"

\* C2, amended: as above, but Deny is returned only when no Tier 1 rule
\* allowed and either a Tier 2 rule matches or, neither tier having decided,
\* the classifier was asked and answered DANGEROUS; its answer SAFE gives
\* Allow.
C2_TierOrder ==
    /\ (main_pc = "exited" /\ unwrap(stdin).json) => is_some(verdict)
    /\ MainDecided =>
        /\ Tier1Allows => MainVerdict.decision = "allow"
        /\ MainVerdict.decision = "deny" =>
              (~Tier1Allows /\ (Tier2Denies \/ ClassifierSaysDangerous))
        /\ MainVerdict.asked_llm =>
              (~Tier1Allows /\ ~Tier2Denies /\ llm_configured(unwrap(main_config)))
        /\ (~Tier1Allows /\ ~Tier2Denies /\ ClassifierSaysSafe)
              => MainVerdict.decision = "allow"
        /\ (~Tier1Allows /\ ~Tier2Denies /\ ~ClassifierSaysSafe /\ ~ClassifierSaysDangerous)
              => MainVerdict.decision = "prompt"

\* C2 witness: main() has decided about a payload that a Tier 1 rule allows
\* and a Tier 2 rule denies, and the verdict is Allow.
C2_Witness ==
    /\ MainDecided
    /\ Tier1Allows
    /\ Tier2Denies
    /\ MainVerdict.decision = "allow"

\* C3: whatever the input, the configuration file and the state of the log,
\* the process exits with status 2 exactly when the verdict is Deny and with
\* status 0 otherwise; no other status occurs.
C3_ExitCodes ==
    main_pc = "exited" =>
        /\ exit_code \in { Some(0), Some(2) }
        /\ exit_code = Some(2) <=> (is_some(verdict) /\ MainVerdict.decision = "deny")

\* C4: when the verdict is Allow the standard output holds the decision
\* object (hook_event_name "PreToolUse", permission_decision "allow", the
\* reason, suppress_output) at exit; with Deny, Defer or unparsable input it
\* holds nothing.
C4_AllowWritesDecision ==
    main_pc = "exited" =>
        IF is_some(verdict) /\ MainVerdict.decision = "allow"
        THEN stdout = << HookResponse_allow(MainVerdict.reason) >>
        ELSE stdout = << >>

\* C11: a RateLimiter of N >= 1 requests per minute answers true to each of
\* the first N try_acquire calls made with no time elapsed since new() and
\* false to the (N+1)-th; the bucket never holds more than N tokens, and every
\* call, granted or rejected, returns with the bucket refilled by the elapsed
\* seconds times N/60, capped at N, less the token it granted.
LimiterRate == rl.max_tokens \div TokenUnit
C11_TokenBucket ==
    /\ rl.tokens <= rl.max_tokens
    /\ rl_call.op = "try_acquire" =>
        LET refilled == min_of(rl_call.before + rl_call.elapsed * LimiterRate,
                               LimiterRate * TokenUnit)
        IN  /\ rl_call.ret = (refilled >= TokenUnit)
            /\ rl.tokens = refilled - (IF rl_call.ret THEN TokenUnit ELSE 0)
            /\ instant = 0 => rl_call.ret = (rl_call.calls <= LimiterRate)

\* C11 witness: the fourth call on a limiter of three requests per minute, made
\* with no time elapsed, was rejected.
C11_Witness ==
    /\ instant = 0
    /\ LimiterRate = 3
    /\ rl_call.op = "try_acquire"
    /\ rl_call.calls = 4
    /\ rl_call.ret = FALSE

\* C12: an is_open call on an open breaker returns true and changes nothing
\* while less than recovery_timeout has elapsed since the last record_failure;
\* made at or after that time it returns false and leaves the breaker closed
\* with a failure counter of zero.  (A step that leaves the clock alone and
\* ends with is_open as the last call is an is_open call.)
C12_OpenUntilRecovery ==
    [][ (cb.is_open /\ instant' = instant /\ cb_call'.op = "is_open") =>
            /\ is_some(cb.last_failure)
            /\ IF instant - unwrap(cb.last_failure) < cb.recovery_timeout
               THEN cb_call'.ret = TRUE /\ cb' = cb
               ELSE /\ cb_call'.ret = FALSE
                    /\ cb'.is_open = FALSE
                    /\ cb'.failure_count = 0 ]_vars

\* C12 witness: a breaker with a recovery timeout of two seconds was opened,
\* and the is_open call made two seconds after its last failure returned false
\* and closed it.
C12_Witness ==
    /\ cb.recovery_timeout = 2
    /\ cb_call.op = "is_open"
    /\ cb_call.ret = FALSE
    /\ cb_call.consecutive >= cb.threshold
    /\ is_some(cb.last_failure)
    /\ instant - unwrap(cb.last_failure) = 2
    /\ cb.is_open = FALSE
    /\ cb.failure_count = 0

\* What max_attempts must be: max(1, retry_max_attempts), or one attempt when
\* retry is disabled.
AttemptLimit ==
    IF ~wh.config.retry_enabled THEN 1
    ELSE IF wh.config.retry_max_attempts > 1 THEN wh.config.retry_max_attempts ELSE 1
SendRunning == wh.pc \in {"attempt", "sleep"}
SendReturned == wh.pc = "returned"

\* C13: an admitted send_webhook sends the same payload attempt after attempt;
\* while it runs every attempt so far has failed and fewer than the limit of
\* max(1, retry_max_attempts) attempts (one when retry is disabled) are
\* behind it or the loop is about to end; it returns Ok exactly when its last
\* attempt succeeded, and then no attempt follows the success; it returns an
\* error carrying the last attempt's error exactly when the limit of attempts
\* have all failed; the breaker was told of every attempt's result once, in
\* order; and every send that has started returns.
C13_RetryUntilSuccess ==
    /\ [](wh.admitted =>
            /\ \A i \in 1..Len(wh.requests) : wh.requests[i] = unwrap(wh.payload)
            /\ Len(wh.outcomes) = Len(wh.requests)
            /\ Len(wh.requests) <= AttemptLimit
            /\ \A i \in 1..(Len(wh.outcomes) - 1) : wh.outcomes[i] # "success"
            /\ wh.reports = [i \in 1..Len(wh.outcomes) |->
                                IF wh.outcomes[i] = "success" THEN "success" ELSE "failure"]
            /\ SendRunning => \A i \in 1..Len(wh.outcomes) : wh.outcomes[i] # "success"
            /\ wh.pc = "sleep" => Len(wh.requests) < AttemptLimit
            /\ SendReturned =>
                /\ Len(wh.requests) >= 1
                /\ LET last == wh.outcomes[Len(wh.outcomes)] IN
                   IF last = "success"
                   THEN wh.result = Some(Ok)
                   ELSE /\ Len(wh.requests) = AttemptLimit
                        /\ wh.result = Some(Err(<<"Webhook failed after", AttemptLimit,
                                                  error_of(last)>>)))
    /\ (SendRunning ~> SendReturned)

\* C13 witness: a send with retry enabled and three attempts allowed failed
\* twice, succeeded at the third attempt and returned Ok.
C13_Witness ==
    /\ wh.admitted
    /\ SendReturned
    /\ wh.config.retry_enabled
    /\ wh.config.retry_max_attempts = 3
    /\ wh.outcomes = <<"http_error", "request_failed", "success">>
    /\ wh.result = Some(Ok)

\* A segment passes Tier 1b when it matches an allow pattern or is an inline
\* script whose source matches no dangerous pattern of its interpreter.
SegmentPasses(segment) ==
    \/ segment_matches_patterns(segment, config_default_config.auto_approve.bash_patterns)
    \/ /\ config_default_config.inline_scripts.enabled
       /\ LET script == permission_parse_inline_script(normalize_program_path(segment))
          IN  /\ is_some(script)
              /\ permission_is_inline_script_safe(config_default_config, unwrap(script)).safe
CdOnly(segment) == segment = <<"c", "d">> \/ starts_with(segment, <<"c", "d", " ">>)
CommandSegments == split_command_segments(trim(BashCommand))

\* C14: for a shell command, is_auto_approved returns an approval if and only
\* if every segment that is not cd-only passes Tier 1b; a command of cd-only
\* segments alone is approved.
C14_AllowIffSegmentsPass ==
    (pm_call.op = "is_auto_approved" /\ IsBashCall) =>
        (is_some(pm_call.ret) <=>
            \A i \in 1..Len(CommandSegments) :
                CdOnly(CommandSegments[i]) \/ SegmentPasses(CommandSegments[i]))

MainToolName == payload_tool_name(unwrap(stdin).payload)
DestructiveVerbs ==
    { <<"d", "e", "l", "e", "t", "e">>, <<"r", "e", "m", "o", "v", "e">>, <<"d", "e", "s", "t", "r", "o", "y">>, <<"d", "r", "o", "p">>, <<"c", "l", "e", "a", "r">>, <<"w", "i", "p", "e">>, <<"p", "u", "r", "g", "e">>,
      <<"e", "r", "a", "s", "e">>, <<"r", "e", "s", "e", "t">>, <<"t", "r", "u", "n", "c", "a", "t", "e">> }
IsDestructiveMcp(tool_name) ==
    /\ starts_with(tool_name, <<"m", "c", "p", "_", "_">>)
    /\ \E verb \in DestructiveVerbs :
          contains(to_lowercase(split_last(tool_name, <<"_", "_">>)), verb)

\* C15: every tool whose name starts with mcp__ and whose action name holds a
\* destructive verb is denied.
C15_DestructiveMcpDenied ==
    (main_pc = "exited" /\ is_some(stdin) /\ IsDestructiveMcp(MainToolName)) =>
        (is_some(verdict) /\ MainVerdict.decision = "deny")

\* The whole-command deny check of main.rs on the call at hand.
MainDenies == is_some(is_auto_denied(default_config, pm_input.tool_name, pm_input.input))

\* C16: the segment-wise is_auto_denied of permission.rs denies every Bash
\* command that the whole-command is_auto_denied of main.rs denies, the
\* commands that pipe a download into a shell or redirect into /etc/ among
\* them.
C16_SegmentDenyCoversCommandDeny ==
    (pm_call.op = "is_auto_denied" /\ IsBashCall /\ MainDenies) => is_some(pm_call.ret)

\* The quote state after each character of a command: inside single quotes,
\* inside double quotes, and whether the next character is escaped.
QuoteStates(command) ==
    LET st[i \in 0..Len(command)] ==
            IF i = 0 THEN [single |-> FALSE, double |-> FALSE, escaped |-> FALSE]
            ELSE LET before == st[i - 1]
                     c == command[i]
                 IN  IF before.escaped THEN [before EXCEPT !.escaped = FALSE]
                     ELSE IF c = "'" /\ ~before.double
                     THEN [before EXCEPT !.single = ~before.single]
                     ELSE IF c = "\"" /\ ~before.single
                     THEN [before EXCEPT !.double = ~before.double]
                     ELSE IF c = "\\" /\ (before.single \/ before.double)
                     THEN [before EXCEPT !.escaped = TRUE]
                     ELSE before
    IN  st
Outside(state) == ~state.single /\ ~state.double
\* The matched pairs of quotes of a command: an opening quote met outside both
\* quote states and the first character after it that leaves the quote state.
MatchedPairs(command) ==
    LET st == QuoteStates(command) IN
    { <<o, c>> \in (1..Len(command)) \X (1..Len(command)) :
        /\ o < c
        /\ Outside(st[o - 1]) /\ ~Outside(st[o])
        /\ Outside(st[c])
        /\ \A k \in o..(c - 1) : ~Outside(st[k]) }
\* The control characters of a command that lie outside both quote states.
UnquotedOperators(command) ==
    { i \in 1..Len(command) :
        command[i] \in { "|", "&", ";" } /\ Outside(QuoteStates(command)[i - 1]) }
HoldsOperator(text) == \E i \in 1..Len(text) : text[i] \in { "|", "&", ";" }

\* The pieces of a command cut at the positions of a set, the characters at
\* those positions left out.
CutAt(command, positions) ==
    LET RECURSIVE cut(_, _)
        cut(from, pieces) ==
            LET later == { b \in positions : b >= from } IN
            IF later = {} THEN Append(pieces, SubSeq(command, from, Len(command)))
            ELSE LET b == CHOOSE x \in later : \A y \in later : x <= y
                 IN  cut(b + 1, Append(pieces, SubSeq(command, from, b - 1)))
    IN  cut(1, << >>)
\* The segments that cutting a command at a set of positions gives.
SegmentsCutAt(command, positions) ==
    LET pieces == CutAt(command, positions)
        RECURSIVE push(_, _)
        push(i, segments) ==
            IF i > Len(pieces) THEN segments
            ELSE push(i + 1, push_segment(segments, pieces[i]))
        segments == push(1, << >>)
    IN  IF segments = << >> THEN <<command>> ELSE segments

ControlOperatorPositions(command) ==
    LET at(i) == IF i >= 1 /\ i <= Len(command) THEN command[i] ELSE ""
    IN  { i \in UnquotedOperators(command) :
            command[i] = "&" => (at(i - 1) # ">" /\ at(i + 1) # ">") }
\* The positions of the standalone (background) & of a command.
BackgroundPositions(command) ==
    { i \in ControlOperatorPositions(command) :
        /\ command[i] = "&"
        /\ (i = 1 \/ command[i - 1] # "&")
        /\ (i = Len(command) \/ command[i + 1] # "&") }

\* C18: every control operator outside the quotes, the standalone & among
\* them, is a segment boundary: the segments that split_command_segments
\* returns are those of the command cut at every such operator.
C18_EveryOperatorIsBoundary ==
    (pm_call.op = "split_command_segments") =>
        pm_call.ret = SegmentsCutAt(BashCommand, ControlOperatorPositions(BashCommand))

\* The reply the two cooldown queries are to give for a stored timestamp: a
\* record exists, the timestamp is not zero, and less than the window has
\* passed since.
WithinWindow(record, field, now, window) ==
    /\ is_some(record)
    /\ unwrap(record)[field] # 0
    /\ now - unwrap(record)[field] < window

\* C19: should_suppress_question returns true if and only if the session has
\* a state record whose last_task_complete_time is not zero and lies less than
\* the window before now, and should_suppress_question_after_any the same of
\* last_notification_time; both return false for a window of zero and for a
\* session without a record.
C19_SuppressIffWithinWindow ==
    [][(clock' = clock /\ state_file' = state_file) =>
          /\ ss_call'.op = "should_suppress_question" =>
                /\ ss_call'.ret = WithinWindow(state_file[ss_call'.session],
                                               "last_task_complete_time", clock,
                                               ss_call'.window)
                /\ (ss_call'.window = 0 \/ ~is_some(state_file[ss_call'.session])) =>
                      ~ss_call'.ret
          /\ ss_call'.op = "should_suppress_question_after_any" =>
                /\ ss_call'.ret = WithinWindow(state_file[ss_call'.session],
                                               "last_notification_time", clock,
                                               ss_call'.window)
                /\ (ss_call'.window = 0 \/ ~is_some(state_file[ss_call'.session])) =>
                      ~ss_call'.ret]_vars

\* C19 witness: a question was suppressed one second after the task completed,
\* with a window of two seconds.
C19_Witness ==
    /\ ss_call.op = "should_suppress_question"
    /\ ss_call.window = 2
    /\ ss_call.ret
    /\ is_some(state_file[ss_call.session])
    /\ clock - unwrap(state_file[ss_call.session]).last_task_complete_time = 1

\* The lease keys of a session all free: an acquire of any of them would
\* return true.
AcquireWouldSucceed(s) ==
    /\ \A e \in HookEvents : acquire_lock(files, s, e, clock).ret
    /\ acquire_content_lock(files, s, clock).ret

\* C20: after cleanup_for_session(s) no coordination file of s is left: no
\* event lease, no content lease and no session-state record, so that the next
\* acquire of any key of s returns true and load(s) gives no record.
C20_SweepLeavesNothing ==
    (ss_call.op = "cleanup_for_session") =>
        /\ \A n \in FileNames : contains(n, ss_call.session) => ~path_exists(files, n)
        /\ AcquireWouldSucceed(ss_call.session)
        /\ ~is_some(load(state_file, ss_call.session))

\* A step in which a call of send_webhook is turned away before the retry
\* loop with the given error.
RejectedWith(message) ==
    /\ wh'.sends = wh.sends + 1
    /\ wh'.pc = "returned"
    /\ ~unwrap(wh'.result).ok
    /\ unwrap(wh'.result).err = message
\* A step in which a call of send_webhook passes the checks before the loop.
Admitted == wh'.sends = wh.sends + 1 /\ wh'.admitted
\* The limiter after a try_acquire that took a token.
TokenSpent ==
    /\ rl_call'.op = "try_acquire" /\ rl_call'.calls = rl_call.calls + 1 /\ rl_call'.ret
    /\ rl'.tokens = RateLimiter_refill(rl, instant).tokens - TokenUnit
\* The breaker after an is_open that said closed.
BreakerSaidClosed ==
    /\ cb_call'.op = "is_open" /\ ~cb_call'.ret
    /\ cb' = CircuitBreaker_is_open(cb, instant).cb

\* C21 as stated: the rate limiter is asked first and the circuit breaker
\* second, so a send the rate limiter rejects neither reads nor changes the
\* breaker, and a send rejected for an open circuit has spent a token.
C21_LimiterBeforeBreaker ==
    [][/\ RejectedWith("Rate limit exceeded") => (cb' = cb /\ cb_call' = cb_call)
       /\ RejectedWith("Circuit breaker is open") => TokenSpent]_vars

\* C21 amended: send_webhook asks the circuit breaker first and the rate
\* limiter second: a send rejected for an open circuit leaves the rate limiter
\* untouched and spends no token, a send the rate limiter rejects has asked
\* the breaker before and found it closed (a check that closes a breaker whose
\* recovery timeout has passed), and an admitted send has done both.
C21_BreakerBeforeLimiter ==
    [][/\ RejectedWith("Circuit breaker is open") =>
            /\ rl' = rl /\ rl_call' = rl_call
            /\ cb_call'.op = "is_open" /\ cb_call'.ret
       /\ RejectedWith("Rate limit exceeded") =>
            /\ BreakerSaidClosed
            /\ rl_call'.op = "try_acquire" /\ ~rl_call'.ret
       /\ Admitted => (BreakerSaidClosed /\ TokenSpent)]_vars

\* C21 witness: the second send was rejected for the open circuit, and the
\* rate limiter has been asked once only, by the first send.
C21_Witness ==
    /\ wh.pc = "returned" /\ ~wh.admitted /\ wh.sends = 2
    /\ ~unwrap(wh.result).ok /\ unwrap(wh.result).err = "Circuit breaker is open"
    /\ cb.is_open
    /\ rl_call.calls = 1

\* A step of the retry loop that sends a request.
RequestSent == Len(wh'.requests) > Len(wh.requests)

\* C22: inside the retry loop of one send_webhook no request is sent while the
\* circuit breaker is open (is_open would answer true), so that the attempts
\* left when the failures of the loop reach the threshold are not made.
C22_NoAttemptWhileOpen ==
    [][RequestSent => ~CircuitBreaker_is_open(cb, instant).ret]_vars

\* C23: a lease is held for as long as really less than its freshness
\* threshold has passed since it was made: with a real age below 2 seconds
\* check_early_duplicate answers true and acquire_lock false, and with a real
\* age below 5 seconds acquire_content_lock answers false.
C23_AgeFollowsRealTime ==
    /\ (age_call.op = "check_early_duplicate" /\ is_some(age_call.real_age)
            /\ unwrap(age_call.real_age) < LockFreshSecs * TicksPerSecond) => age_call.ret
    /\ (age_call.op = "acquire_lock" /\ is_some(age_call.real_age)
            /\ unwrap(age_call.real_age) < LockFreshSecs * TicksPerSecond) => ~age_call.ret
    /\ (age_call.op = "acquire_content_lock" /\ is_some(age_call.real_age)
            /\ unwrap(age_call.real_age) < ContentFreshSecs * TicksPerSecond) => ~age_call.ret

\* min(2^k, 10) in unbounded arithmetic: 2^k is above 10 from k = 4 on.
CappedPower(k) == IF k >= 4 THEN 10 ELSE 2 ^ k

\* C24: for every max_attempts and every attempt k with 1 <= k < max_attempts
\* the sleep before attempt k is min(2^k, 10) seconds, so that no sleep is
\* longer than 10 seconds and the sleeps of one send add up to at most 10
\* seconds times max_attempts.
C24_BackoffCapped ==
    (bo.attempt >= 1) =>
        /\ ~bo.panicked
        /\ bo.delay = CappedPower(bo.attempt)
        /\ bo.delay <= 10
        /\ bo.total <= 10 * bo.max_attempts

\* The assistant messages after the last user message of the transcript (all
\* of them when there is no user message), and the window analyze_transcript
\* looks at.
TurnMessages ==
    LET users == { i \in 1..Len(messages) : Message_is_user(messages[i]) }
        from == IF users = {} THEN 1 ELSE CHOOSE i \in users : \A j \in users : j <= i
    IN  SelectSeq(SubSeq(messages, from, Len(messages)), Message_is_assistant)
Window == get_recent_assistant_messages(messages, RecentWindow)
\* Whether one of the three most recent messages of the window, or one of the
\* older ones, satisfies a check on its text.
InLastThree(check(_)) ==
    \E i \in 1..Len(Window) : i > Len(Window) - 3 /\ check(Message_get_text(Window[i]))
InOlder(check(_)) ==
    \E i \in 1..Len(Window) : i <= Len(Window) - 3 /\ check(Message_get_text(Window[i]))

\* C25: analyze_transcript returns Unknown for an empty transcript and for one
\* whose last user message no assistant message follows; otherwise
\* SessionLimitReached when one of the three most recent messages of the
\* window has the session-limit phrase, whatever else they hold; otherwise
\* ApiError when one of the three has "api error: 401" and a login hint; and
\* neither of the two when the phrases occur in older messages only.
C25_LimitAndErrorFirst ==
    is_some(an_call) =>
        IF messages = << >> \/ Window = << >> THEN unwrap(an_call) = "Unknown"
        ELSE IF InLastThree(check_session_limit) THEN unwrap(an_call) = "SessionLimitReached"
        ELSE IF InLastThree(check_api_error) THEN unwrap(an_call) = "ApiError"
        ELSE unwrap(an_call) \notin { "SessionLimitReached", "ApiError" }

\* C25 witness: of four assistant messages the oldest reports the session
\* limit and the latest the 401 error: the result is ApiError.
C25_Witness ==
    /\ an_call = Some("ApiError")
    /\ Len(Window) = 4
    /\ InOlder(check_session_limit)
    /\ ~InLastThree(check_session_limit)
    /\ check_api_error(Message_get_text(Window[4]))

\* The latest max_count messages of a turn.
LatestOf(turn, max_count) ==
    IF Len(turn) <= max_count THEN turn
    ELSE SubSeq(turn, Len(turn) - max_count + 1, Len(turn))

\* C28: the window analyze_transcript has looked at holds the most recent
\* assistant message of the transcript, and the RecentWindow latest ones when
\* more than RecentWindow follow the last user message; so the result is the
\* one the latest messages of the turn give.
C28_WindowHoldsLatest ==
    (is_some(an_call) /\ TurnMessages # << >>) =>
        /\ Window[Len(Window)] = TurnMessages[Len(TurnMessages)]
        /\ Window = LatestOf(TurnMessages, RecentWindow)
        /\ unwrap(an_call) = analyze_transcript(<< UserTurn >> \o LatestOf(TurnMessages, RecentWindow), an_config)

\* The lines of a command: its text cut at the newlines outside the quotes.
CommandLines(command) ==
    CutAt(command, { i \in 1..Len(command) :
                       command[i] = "\n" /\ Outside(QuoteStates(command)[i - 1]) })
\* The lines that are command lines of their own: all of them in a command
\* without a here-document, those after the terminator line in one with a
\* here-document.
OwnLines(command) ==
    LET lines == CommandLines(command)
        ends == { j \in 2..Len(lines) : trim(lines[j]) = <<"E", "O", "F">> }
    IN  IF ~contains(command, <<"<", "<">>) THEN { lines[j] : j \in 1..Len(lines) }
        ELSE IF ends = {} THEN {}
        ELSE { lines[j] : j \in { k \in 1..Len(lines) : \A e \in ends : k > e } }
\* Whether every segment of one line passes Tier 1b or is cd-only.
LinePasses(line) ==
    LET passes(segments) ==
            \A i \in 1..Len(segments) :
                segments[i] = << >> \/ CdOnly(segments[i]) \/ SegmentPasses(segments[i])
    IN  passes(split_command_segments(trim(line)))

\* C26: a Bash command is approved only if every command in its text passed
\* Tier 1b, the commands on a line of their own and the command lines after
\* the terminator line of a here-document included.
C26_EveryLinePasses ==
    (pm_call.op = "is_auto_approved" /\ IsBashCall /\ is_some(pm_call.ret)) =>
        \A line \in OwnLines(BashCommand) : LinePasses(line)

\* The lease files of a session: its event leases and its content lease.
LeaseFilesOf(s) == { get_lock_path(s, e) : e \in HookEvents } \cup { get_content_lock_path(s) }

\* C27: cleanup_for_session(s) removes lease files of s only: every lease file
\* of another session that existed before the call exists after it, and a
\* lease that check_early_duplicate and acquire_lock reported as held is
\* still reported as held.
C27_SweepSparesOtherSessions ==
    (sweep_call.op = "cleanup_for_session") =>
        \A other \in SharingSessionIds \ { sweep_call.session } :
            /\ \A n \in LeaseFilesOf(other) :
                  path_exists(sweep_call.before, n) => path_exists(temp_dir, n)
            /\ \A e \in HookEvents :
                  /\ check_early_duplicate(sweep_call.before, other, e, clock)
                        => check_early_duplicate(temp_dir, other, e, clock)
                  /\ ~acquire_lock(sweep_call.before, other, e, clock).ret
                        => ~acquire_lock(temp_dir, other, e, clock).ret

\* C29: in every state that record_failure, record_success and is_open calls
\* reach from a new CircuitBreaker with a threshold of at least 1, the open
\* flag is set if and only if the failure counter is at least the threshold,
\* and a last-failure time is recorded whenever the flag is set.
C29_OpenIffCounterAtThreshold ==
    /\ cb.is_open <=> cb.failure_count >= cb.threshold
    /\ cb.is_open => is_some(cb.last_failure)

\* C29 witness: a failure was recorded on an open breaker, whose counter is
\* now above the threshold, at a time later than the breaker's first failure.
C29_Witness ==
    /\ cb_call.op = "record_failure"
    /\ cb.is_open
    /\ cb.failure_count > cb.threshold
    /\ cb.threshold >= 1
    /\ unwrap(cb.last_failure) > 0

\* A step in which a call of send_webhook returns from the checks before the
\* retry loop.
TurnedAway == wh'.sends = wh.sends + 1 /\ ~wh'.admitted

\* C30: a send_webhook call turned away before the retry loop (webhook
\* disabled, URL empty, circuit open, no token) has returned without a request
\* and without a report to the circuit breaker: the breaker is as is_open left
\* it or untouched, its failure counter and last-failure time not raised and
\* its flag not set by the call; with the webhook disabled the call returns Ok
\* and leaves the rate limiter and the breaker untouched.
C30_RejectionRecordsNothing ==
    [][TurnedAway =>
          /\ wh'.pc = "returned"
          /\ wh'.requests = << >> /\ wh'.outcomes = << >> /\ wh'.reports = << >>
          /\ cb' \in { cb, CircuitBreaker_is_open(cb, instant).cb }
          /\ cb'.failure_count <= cb.failure_count
          /\ cb'.last_failure = cb.last_failure
          /\ cb'.is_open => cb.is_open
          /\ RejectedWith("Rate limit exceeded") => (rl_call'.op = "try_acquire" /\ ~rl_call'.ret)
          /\ ~wh.config.enabled =>
                (wh'.result = Some(Ok) /\ rl' = rl /\ rl_call' = rl_call /\ cb' = cb)]_vars

\* C30 witness: a send was turned away by the rate limiter after an earlier
\* send had failed: the breaker holds the failures of the earlier send only
\* and is closed.
C30_Witness ==
    /\ wh.pc = "returned" /\ ~wh.admitted /\ wh.sends = 2
    /\ ~unwrap(wh.result).ok /\ unwrap(wh.result).err = "Rate limit exceeded"
    /\ wh.requests = << >> /\ wh.reports = << >>
    /\ cb.failure_count > 0 /\ ~cb.is_open
    /\ rl_call.op = "try_acquire" /\ ~rl_call.ret

====
